---- MODULE Spec2Model ----
(***************************************************************************)
(* Model of the probability-calculation library of Probability-Calculator  *)
(* (src/discrete.py): the combinatorics helpers, the binomial point-mass   *)
(* and cumulative functions.                                               *)
(*                                                                         *)
(* The library is a set of pure functions over Python ints (unbounded) and *)
(* Python floats (IEEE-754 binary64).  Both are modelled by what they do:  *)
(* an int is a natural number held as a little-endian sequence of limbs,   *)
(* a float is a sign, a mantissa and a binary exponent, and every float    *)
(* operation computes the exact result and rounds it to nearest, ties to   *)
(* even, into 53 bits.  A call's outcome is either a value or the          *)
(* exception it raised.                                                    *)
(***************************************************************************)
EXTENDS Bags, Integers, Sequences, FiniteSets, TLC

(***************************************************************************)
(* Python int: unbounded naturals as little-endian limb sequences, radix   *)
(* 2^15, no high zero limb (zero is the empty sequence).                   *)
(***************************************************************************)
LimbBits == 15

Base == 2 ^ LimbBits

Limb(a, i) == IF i <= Len(a) THEN a[i] ELSE 0

\* a without its high zero limbs
BigTrim(a) ==
    IF \A i \in 1..Len(a) : a[i] = 0 THEN <<>>
    ELSE SubSeq(a, 1, CHOOSE i \in 1..Len(a) :
                          a[i] # 0 /\ \A k \in (i + 1)..Len(a) : a[k] = 0)

RECURSIVE BigOfInt(_)
BigOfInt(x) == IF x = 0 THEN <<>> ELSE <<x % Base>> \o BigOfInt(x \div Base)

\* a + b: s is the sum of the two limbs at each place; a carry enters limb i
\* when a place below it overflows and every place between is full
BigAdd(a, b) ==
    LET n == IF Len(a) >= Len(b) THEN Len(a) ELSE Len(b)
        s == [i \in 1..n |-> Limb(a, i) + Limb(b, i)]
        c == [i \in 1..(n + 1) |->
                 IF \E j \in 1..(i - 1) :
                        s[j] >= Base /\ \A k \in (j + 1)..(i - 1) : s[k] = Base - 1
                 THEN 1 ELSE 0]
    IN  [i \in 1..n |-> (s[i] + c[i]) % Base]
            \o (IF c[n + 1] = 1 THEN <<1>> ELSE <<>>)

\* a - b for a >= b: d is the difference of the two limbs at each place; a
\* borrow leaves limb i when a place below it is negative and every place
\* between is zero
BigSub(a, b) ==
    LET n == Len(a)
        d == [i \in 1..n |-> a[i] - Limb(b, i)]
        c == [i \in 1..n |->
                 IF \E j \in 1..(i - 1) :
                        d[j] < 0 /\ \A k \in (j + 1)..(i - 1) : d[k] = 0
                 THEN 1 ELSE 0]
    IN  BigTrim([i \in 1..n |-> IF d[i] - c[i] < 0 THEN d[i] - c[i] + Base
                                ELSE d[i] - c[i]] \o <<>>)

\* -1, 0, 1 as a < b, a = b, a > b: the highest limb that differs decides
BigCmp(a, b) ==
    IF Len(a) > Len(b) THEN 1
    ELSE IF Len(a) < Len(b) THEN -1
    ELSE IF \A i \in 1..Len(a) : a[i] = b[i] THEN 0
    ELSE LET i == CHOOSE i \in 1..Len(a) :
                      a[i] # b[i] /\ \A k \in (i + 1)..Len(a) : a[k] = b[k]
         IN  IF a[i] > b[i] THEN 1 ELSE -1

\* a * m for 0 <= m < Base: the low halves of the limb products plus their
\* high halves one place up
BigMulSmall(a, m) ==
    IF m = 0 \/ a = <<>> THEN <<>>
    ELSE BigTrim(BigAdd([i \in 1..Len(a) |-> (a[i] * m) % Base] \o <<>>,
                        <<0>> \o [i \in 1..Len(a) |-> (a[i] * m) \div Base]))

RECURSIVE BigDivSmallRange(_, _, _, _, _)
\* long division of the limbs hi down to lo of a by d, given the remainder r
\* left by the limbs above hi: the quotient limbs and the remainder
BigDivSmallRange(a, d, hi, lo, r) ==
    IF lo = hi
    THEN [q |-> <<(r * Base + a[hi]) \div d>>, r |-> (r * Base + a[hi]) % d]
    ELSE LET H == BigDivSmallRange(a, d, hi, ((lo + hi) \div 2) + 1, r)
             L == BigDivSmallRange(a, d, (lo + hi) \div 2, lo, H.r)
         IN  IF H.r < 0 THEN H ELSE [q |-> L.q \o H.q, r |-> L.r]

\* quotient and remainder of a by d, 0 < d <= Base
BigDivSmall(a, d) ==
    IF a = <<>> THEN [q |-> <<>>, r |-> 0]
    ELSE LET x == BigDivSmallRange(a, d, Len(a), 1, 0)
         IN  [q |-> BigTrim(x.q), r |-> x.r]

\* the sum of f[i] over the domain of a function f of natural numbers: the
\* size of the bag with f[i] copies of each i
SumOver(f) == BagCardinality([i \in {j \in DOMAIN f : f[j] > 0} |-> f[i]])

\* a * b, the schoolbook product: column k collects the low halves of the limb
\* products a[i] * b[k + 1 - i] and the high halves of the products one place
\* below; the low and high parts of the columns are then added
BigMul(a, b) ==
    IF a = <<>> \/ b = <<>> THEN <<>>
    ELSE LET n   == Len(a) + Len(b)
             col == [k \in 1..n |->
                        SumOver([i \in {j \in 1..Len(a) : k + 1 - j \in 1..Len(b)} |->
                                     (a[i] * b[k + 1 - i]) % Base])
                        + SumOver([i \in {j \in 1..Len(a) : k - j \in 1..Len(b)} |->
                                       (a[i] * b[k - i]) \div Base])] \o <<>>
         IN  BigTrim(BigAdd([k \in 1..n |-> col[k] % Base] \o <<>>,
                            <<0>> \o [k \in 1..n |-> col[k] \div Base]))

\* the number of bits of a limb 0 <= x < Base
SmallBitLen(x) ==
    IF x = 0 THEN 0
    ELSE LET a  == IF x >= 256 THEN 8 ELSE 0
             xa == x \div (2 ^ a)
             b  == IF xa >= 16 THEN 4 ELSE 0
             xb == xa \div (2 ^ b)
             c  == IF xb >= 4 THEN 2 ELSE 0
             xc == xb \div (2 ^ c)
         IN  a + b + c + (IF xc >= 2 THEN 1 ELSE 0) + 1

BigBitLen(a) ==
    IF a = <<>> THEN 0 ELSE LimbBits * (Len(a) - 1) + SmallBitLen(a[Len(a)])

\* a * 2^n
BigShl(a, n) ==
    IF a = <<>> THEN a
    ELSE [i \in 1..(n \div LimbBits) |-> 0] \o BigMulSmall(a, 2 ^ (n % LimbBits))

\* floor(a / 2^n): each limb takes its high bits from its place and its low
\* bits from the place above
BigShr(a, n) ==
    IF n \div LimbBits >= Len(a) THEN <<>>
    ELSE LET w == n \div LimbBits
             d == 2 ^ (n % LimbBits)
         IN  BigTrim([i \in 1..(Len(a) - w) |->
                          (a[i + w] \div d) + (Limb(a, i + w + 1) % d) * (Base \div d)]
                     \o <<>>)

\* a mod 2^n
BigLow(a, n) == BigSub(a, BigShl(BigShr(a, n), n))

BigIsOdd(a) == Limb(a, 1) % 2 = 1

RECURSIVE BigPow(_, _)
\* a^k by repeated squaring
BigPow(a, k) ==
    IF k = 0 THEN <<1>>
    ELSE LET h == BigPow(a, k \div 2)
         IN  IF h = <<>> THEN h
             ELSE IF k % 2 = 0 THEN BigMul(h, h)
             ELSE BigMul(BigMul(h, h), a)

(***************************************************************************)
(* math.factorial and math.comb: exact integer results.                    *)
(***************************************************************************)
RECURSIVE FactSteps(_, _, _)
\* acc * lo * (lo+1) * ... * hi, the range quartered at each level
FactSteps(lo, hi, acc) ==
    IF lo > hi \/ acc = <<>> THEN acc
    ELSE IF lo = hi THEN BigMulSmall(acc, lo)
    ELSE LET n  == hi - lo + 1
             p1 == FactSteps(lo, lo + (n \div 4) - 1, acc)
             p2 == FactSteps(lo + (n \div 4), lo + (n \div 2) - 1, p1)
             p3 == FactSteps(lo + (n \div 2), lo + ((3 * n) \div 4) - 1, p2)
         IN  IF p1 = <<>> THEN p1
             ELSE IF p2 = <<>> THEN p2
             ELSE IF p3 = <<>> THEN p3
             ELSE FactSteps(lo + ((3 * n) \div 4), hi, p3)

\* math.factorial(n), n >= 0
MathFactorial(n) == FactSteps(2, n, <<1>>)

RECURSIVE CombSteps(_, _, _, _, _)
\* acc taken through the steps i = lo..hi of acc := acc * (n-kk+i) / i
CombSteps(n, kk, lo, hi, acc) ==
    IF lo > hi \/ acc = <<>> THEN acc
    ELSE IF lo = hi THEN BigDivSmall(BigMulSmall(acc, n - kk + lo), lo).q
    ELSE LET first == CombSteps(n, kk, lo, (lo + hi) \div 2, acc)
         IN  IF first = <<>> THEN first
             ELSE CombSteps(n, kk, ((lo + hi) \div 2) + 1, hi, first)

\* math.comb(n, k), 0 <= k <= n: the product of (n-kk+i)/i for i = 1..kk,
\* kk = min(k, n-k); every partial product is itself a binomial coefficient,
\* so each division is exact.
MathComb(n, k) == CombSteps(n, IF k <= n - k THEN k ELSE n - k, 1,
                            IF k <= n - k THEN k ELSE n - k, <<1>>)

(***************************************************************************)
(* Python numbers.  A number is [kind, neg, m, e]: an int (kind "int",     *)
(* e = 0, value m) or a float (kind "float", value m * 2^e, IEEE-754       *)
(* binary64).  A float is held in canonical form: a normal number has a    *)
(* mantissa of exactly MantBits bits, a subnormal has e = MinExp, zero has *)
(* m = 0, e = 0, and infinity is m = 0, e = MaxBits.                       *)
(***************************************************************************)
MantBits == 53

MinExp == -1074

MaxBits == 1024

PyInt(m) == [kind |-> "int", neg |-> FALSE, m |-> m, e |-> 0]

PyFloat(neg, m, e) == [kind |-> "float", neg |-> neg, m |-> m, e |-> e]

FZero == PyFloat(FALSE, <<>>, 0)

FInf == PyFloat(FALSE, <<>>, MaxBits)

FOne == PyFloat(FALSE, BigShl(<<1>>, MantBits - 1), 1 - MantBits)

IsFinite(x) == x.e < MaxBits

\* a mantissa and exponent already rounded, brought to canonical form
FPack(m, e) ==
    IF m = <<>> THEN FZero
    ELSE IF BigBitLen(m) > MantBits
         THEN IF e + 1 + MantBits > MaxBits THEN FInf
              ELSE PyFloat(FALSE, BigShr(m, 1), e + 1)
         ELSE IF e + BigBitLen(m) > MaxBits THEN FInf
              ELSE PyFloat(FALSE, m, e)

\* The float nearest to M * 2^e (ties to even); sticky says that the exact
\* value lies strictly above M * 2^e, by less than 2^e.
FRoundUp(q, c, sticky, e2) ==
    FPack(IF c > 0 \/ (c = 0 /\ (sticky \/ BigIsOdd(q))) THEN BigAdd(q, <<1>>) ELSE q,
          e2)

\* FRound for M # 0 at the exponent e2 of the result: q is M above the bits
\* dropped, c compares the bits dropped with half a unit of q
FRoundAt(M, e, sticky, e2) ==
    IF e2 <= e THEN FPack(BigShl(M, e - e2), e2)
    ELSE FRoundUp(BigShr(M, e2 - e),
                  BigCmp(BigLow(M, e2 - e), BigShl(<<1>>, e2 - e - 1)), sticky, e2)

FRound(M, e, sticky) ==
    IF M = <<>> THEN FZero
    ELSE FRoundAt(M, e, sticky,
                  IF e + BigBitLen(M) - MantBits > MinExp
                  THEN e + BigBitLen(M) - MantBits ELSE MinExp)

\* float("num/den" written in decimal): the float nearest to num/den,
\* 0 < den < Base, num >= 0
FloatLitOf(neg, d) == [FRound(d.q, -(6 * LimbBits), d.r # 0) EXCEPT !.neg = neg]

FloatLit(neg, num, den) ==
    FloatLitOf(neg /\ num # 0, BigDivSmall(BigShl(BigOfInt(num), 6 * LimbBits), den))

\* x * y of two non-negative floats, inf when one of them is inf (the
\* library never multiplies inf by 0.0)
FMul(x, y) ==
    IF ~IsFinite(x) \/ ~IsFinite(y) THEN FInf
    ELSE FRound(BigMul(x.m, y.m), x.e + y.e, FALSE)

FMinExp(x, y) == IF x.e <= y.e THEN x.e ELSE y.e

\* the mantissa of x at exponent e0 <= x.e (inf stands above every float as
\* 2^MaxBits)
FAlign(x, e0) == BigShl(IF IsFinite(x) THEN x.m ELSE <<1>>, x.e - e0)

\* -1, 0, 1 as x < y, x = y, x > y, for floats and ints
FCmp(x, y) ==
    IF x.m = <<>> /\ y.m = <<>> /\ IsFinite(x) /\ IsFinite(y) THEN 0
    ELSE IF x.neg /\ ~y.neg THEN -1
    ELSE IF ~x.neg /\ y.neg THEN 1
    ELSE (IF x.neg THEN -1 ELSE 1)
             * BigCmp(FAlign(x, FMinExp(x, y)), FAlign(y, FMinExp(x, y)))

\* x + y of two non-negative finite floats
FAdd(x, y) ==
    FRound(BigAdd(FAlign(x, FMinExp(x, y)), FAlign(y, FMinExp(x, y))),
           FMinExp(x, y), FALSE)

\* x - y of two finite floats with x >= y >= 0
FSub(x, y) ==
    FRound(BigSub(FAlign(x, FMinExp(x, y)), FAlign(y, FMinExp(x, y))),
           FMinExp(x, y), FALSE)

\* the number of low zero bits of a limb 0 < x < Base
TrailingZeroBits(x) ==
    LET a  == IF x % 256 = 0 THEN 8 ELSE 0
        xa == x \div (2 ^ a)
        b  == IF xa % 16 = 0 THEN 4 ELSE 0
        xb == xa \div (2 ^ b)
        c  == IF xb % 4 = 0 THEN 2 ELSE 0
        xc == xb \div (2 ^ c)
    IN  a + b + c + (IF xc % 2 = 0 THEN 1 ELSE 0)

RECURSIVE LowZeroLimbs(_, _)
\* the number of zero limbs of m (non-zero) from limb i up to its first
\* non-zero limb
LowZeroLimbs(m, i) == IF m[i] # 0 THEN 0 ELSE 1 + LowZeroLimbs(m, i + 1)

\* m * 2^e with the factors of two moved from m (non-zero) into e
OddPartAt(m, e, n) == [m |-> BigShr(m, n), e |-> e + n]

OddPart(m, e) ==
    OddPartAt(m, e, LowZeroLimbs(m, 1) * LimbBits
                        + TrailingZeroBits(m[LowZeroLimbs(m, 1) + 1]))

\* x ** k for a float 0 <= x <= 1 and an int k >= 0: C pow(x, float(k)),
\* the exact power rounded; it cannot overflow, and an underflow gives 0.0
\* without an error
FPowOf(o, k) == FRound(BigPow(o.m, k), o.e * k, FALSE)

FPow(x, k) ==
    IF k = 0 THEN FOne
    ELSE IF x.m = <<>> THEN FZero
    ELSE FPowOf(OddPart(x.m, x.e), k)

\* int -> float, as int * float and int + float do before the operation
\* (PyLong_AsDouble); FInf stands for "too large", where Python raises
\* OverflowError
IntToFloat(m) == FRound(m, 0, FALSE)

\* 0 <= p <= 1 (a chained comparison of a float with the ints 0 and 1)
InClosedUnit(p) == FCmp(PyInt(<<>>), p) <= 0 /\ FCmp(p, PyInt(<<1>>)) <= 0

(***************************************************************************)
(* Outcomes of a call: a returned value or a raised exception.  A          *)
(* ValueError names the parameter its message reports.                     *)
(***************************************************************************)
PyNone == [kind |-> "none", neg |-> FALSE, m |-> <<>>, e |-> 0]

Return(v) == [tag |-> "return", exc |-> "", param |-> "", val |-> v]

Raise(exc, param) == [tag |-> "raise", exc |-> exc, param |-> param, val |-> PyNone]

Continue == [tag |-> "continue", exc |-> "", param |-> "", val |-> PyNone]

(***************************************************************************)
(* src/discrete.py                                                         *)
(***************************************************************************)
factorial(n) ==
    IF n < 0 THEN Raise("ValueError", "n")
    ELSE Return(PyInt(MathFactorial(n)))

\* Mutant of combinations: the check k > n is missing.
combinations_NoUpperCheck(n, k) ==
    IF n < 0 \/ k < 0 THEN Raise("ValueError", "n,k")
    ELSE Return(PyInt(MathComb(n, k)))

combinations(n, k) ==
    IF n < 0 \/ k < 0 THEN Raise("ValueError", "n,k")
    ELSE IF k > n THEN Raise("ValueError", "k")
    ELSE Return(PyInt(MathComb(n, k)))

\* Mutant of BinomialValidate: k > n is treated as a domain violation.
BinomialValidate_ExcessRaises(n, k, p) ==
    IF n < 1 THEN Raise("ValueError", "n")
    ELSE IF k < 0 \/ k > n THEN Raise("ValueError", "k")
    ELSE IF ~InClosedUnit(p) THEN Raise("ValueError", "p")
    ELSE Continue

\* binomial, the input validations (with the early return for k > n)
BinomialValidate(n, k, p) ==
    IF n < 1 THEN Raise("ValueError", "n")
    ELSE IF k < 0 THEN Raise("ValueError", "k")
    ELSE IF k > n THEN Return(FZero)
    ELSE IF ~InClosedUnit(p) THEN Raise("ValueError", "p")
    ELSE Continue

\* Mutant of BinomialSpecial: the p == 1.0 case tests k == 0, as the p == 0.0
\* case does.
BinomialSpecial_SameTest(n, k, p) ==
    IF FCmp(p, FZero) = 0 THEN Return(IF k = 0 THEN FOne ELSE FZero)
    ELSE IF FCmp(p, FOne) = 0 THEN Return(IF k = 0 THEN FOne ELSE FZero)
    ELSE Continue

\* binomial, the special cases p == 0.0 and p == 1.0
BinomialSpecial(n, k, p) ==
    IF FCmp(p, FZero) = 0 THEN Return(IF k = 0 THEN FOne ELSE FZero)
    ELSE IF FCmp(p, FOne) = 0 THEN Return(IF k = n THEN FOne ELSE FZero)
    ELSE Continue

\* binomial, the main computation coef * p**k * (1-p)**(n-k), for 0 <= k <= n
\* and 0 < p < 1.  Neither power can raise for a base in (0,1); the first
\* product converts coef to float and raises OverflowError when it is too
\* large.
BinomialProduct(n, k, p, coefF) ==
    IF ~IsFinite(coefF) THEN Raise("OverflowError", "")
    ELSE Return(FMul(FMul(coefF, FPow(p, k)), FPow(FSub(FOne, p), n - k)))

BinomialWith(n, k, p, coef) ==
    IF coef.tag = "raise" THEN coef
    ELSE BinomialProduct(n, k, p, IntToFloat(coef.val.m))

BinomialMain(n, k, p) == BinomialWith(n, k, p, combinations(n, k))

binomial(n, k, p) ==
    LET checked == BinomialValidate(n, k, p)
        special == BinomialSpecial(n, k, p)
    IN  IF checked # Continue THEN checked
        ELSE IF special # Continue THEN special
        ELSE BinomialMain(n, k, p)

\* acc + x in sum(): acc is the int 0 or a float, x a float
PyAdd(acc, x) ==
    IF acc.kind = "int" THEN FAdd(IntToFloat(acc.m), x) ELSE FAdd(acc, x)

RECURSIVE SumBinomial(_, _, _, _, _, _)
\* the step of SumBinomial for the term binomial(n, i, p)
SumBinomialTerm(n, p, i, stop, acc, evaluated, term) ==
    IF term.tag = "raise"
    THEN [out |-> term, evaluated |-> Append(evaluated, i)]
    ELSE SumBinomial(n, p, i + 1, stop, PyAdd(acc, term.val), Append(evaluated, i))

\* sum(binomial(n, i, p) for i in range(stop)) from index i on: acc is the
\* running sum (it starts as the int 0), evaluated the indices for which
\* binomial has been called; an exception ends the loop
SumBinomial(n, p, i, stop, acc, evaluated) ==
    IF i >= stop
    THEN [out |-> Return(acc), evaluated |-> evaluated]
    ELSE SumBinomialTerm(n, p, i, stop, acc, evaluated, binomial(n, i, p))

\* Mutant of BinomialCumulativeRun: the loop runs over range(k), not range(k+1).
BinomialCumulativeRun_OffByOne(n, k, p) ==
    IF k < 0
    THEN [out |-> Return(FZero), evaluated |-> <<>>]
    ELSE SumBinomial(n, p, 0, IF k >= n THEN n ELSE k, PyInt(<<>>), <<>>)

\* binomial_cumulative: its outcome and the indices it called binomial for
BinomialCumulativeRun(n, k, p) ==
    IF k < 0
    THEN [out |-> Return(FZero), evaluated |-> <<>>]
    ELSE SumBinomial(n, p, 0, (IF k >= n THEN n ELSE k) + 1, PyInt(<<>>), <<>>)

binomial_cumulative(n, k, p) == BinomialCumulativeRun(n, k, p).out

(***************************************************************************)
(* Float arithmetic on signed operands, division, and the power operator   *)
(* with Python's overflow check.  Operands are finite; a result too large  *)
(* is the infinity of its sign.                                            *)
(***************************************************************************)
BigBit(a, i) == (Limb(a, (i \div LimbBits) + 1) \div (2 ^ (i % LimbBits))) % 2

\* one bit of the long division by b: q2 and r2 are the quotient and the
\* remainder shifted, the next bit of the dividend taken into r2
BigDivBit(b, q2, r2) ==
    IF BigCmp(r2, b) >= 0
    THEN [q |-> BigAdd(q2, <<1>>), r |-> BigSub(r2, b)]
    ELSE [q |-> q2, r |-> r2]

RECURSIVE BigDivSteps(_, _, _, _, _)
\* binary long division of a by b over the bits hi down to lo of a, from the
\* state st = the quotient and remainder of the bits above hi; the range is
\* quartered at each level, and one quarter is settled before the next (its
\* remainder is below b, so none of the tests on it holds)
BigDivSteps(a, b, hi, lo, st) ==
    IF hi < lo THEN st
    ELSE IF hi = lo
    THEN BigDivBit(b, BigShl(st.q, 1),
                   BigAdd(BigShl(st.r, 1), IF BigBit(a, hi) = 1 THEN <<1>> ELSE <<>>))
    ELSE LET n  == hi - lo + 1
             s1 == BigDivSteps(a, b, hi, hi - (n \div 4) + 1, st)
             s2 == BigDivSteps(a, b, hi - (n \div 4), hi - (n \div 2) + 1, s1)
             s3 == BigDivSteps(a, b, hi - (n \div 2), hi - ((3 * n) \div 4) + 1, s2)
         IN  IF s1.r = b THEN s1
             ELSE IF s2.r = b THEN s2
             ELSE IF s3.r = b THEN s3
             ELSE BigDivSteps(a, b, hi - ((3 * n) \div 4), lo, s3)

\* quotient and remainder of a by b # 0: the bits of a above the lowest
\* BigBitLen(a) - BigBitLen(b) + 1 are less than b and start the remainder
BigDivMod(a, b) ==
    IF BigCmp(a, b) < 0 THEN [q |-> <<>>, r |-> a]
    ELSE BigDivSteps(a, b, BigBitLen(a) - BigBitLen(b), 0,
                     [q |-> <<>>, r |-> BigShr(a, BigBitLen(a) - BigBitLen(b) + 1)])

FNeg(x) == [x EXCEPT !.neg = ~x.neg]

FSigned(neg, x) == [x EXCEPT !.neg = neg]

\* |x| compared with |y|
FCmpAbs(x, y) == FCmp(FSigned(FALSE, x), FSigned(FALSE, y))

\* x + y
\* x + y for x and y of opposite signs, c comparing |x| with |y|
FAddOpposite(x, y, c) ==
    IF c = 0 THEN FZero
    ELSE FSigned(IF c > 0 THEN x.neg ELSE y.neg,
                 FSub(IF c > 0 THEN x ELSE y, IF c > 0 THEN y ELSE x))

FAddS(x, y) ==
    IF x.neg = y.neg THEN FSigned(x.neg, FAdd(x, y))
    ELSE FAddOpposite(x, y, FCmpAbs(x, y))

\* x - y
FSubS(x, y) == FAddS(x, FNeg(y))

\* x * y
FMulS(x, y) == FSigned(x.neg # y.neg, FMul(x, y))

\* x / y for y # 0: the quotient of the mantissas to MantBits + 2 bits or
\* more, the remainder as the sticky bit
FDivOf(x, y, d) ==
    FSigned(x.neg # y.neg,
            FRound(d.q, x.e - y.e - (2 * MantBits + 2 - BigBitLen(x.m)), d.r # <<>>))

FDiv(x, y) ==
    IF x.m = <<>> THEN FSigned(x.neg # y.neg, FZero)
    ELSE FDivOf(x, y, BigDivMod(BigShl(x.m, 2 * MantBits + 2 - BigBitLen(x.m)), y.m))

(***************************************************************************)
(* The C library's functions (math.exp, math.log, math.erf, math.sqrt),    *)
(* each computed to FxBits binary places in fixed point and then rounded   *)
(* to the nearest float.  A fixed-point number is the natural number       *)
(* a = value * 2^FxBits.                                                   *)
(***************************************************************************)
FxBits == 7 * LimbBits

FxOne == BigShl(<<1>>, FxBits)

FxMul(a, b) == BigShr(BigMul(a, b), FxBits)

\* |x| in fixed point (truncated below 2^-FxBits)
FxOfFloat(x) ==
    IF x.e + FxBits >= 0 THEN BigShl(x.m, x.e + FxBits)
    ELSE BigShr(x.m, -(x.e + FxBits))

\* a natural number below Base^2 as an integer
BigToInt(a) == Limb(a, 1) + Base * Limb(a, 2)

\* The most terms summed of a series; each series ends before, when its
\* term is below 2^-FxBits.
SeriesTerms == 256

RECURSIVE FxAtanhSteps(_, _, _, _)
\* the terms lo..hi of t + t^3/3 + t^5/5 + ...: st.pw is t^(2 lo + 1),
\* st.acc the sum of the terms before it; the range (a power of 4 long) is
\* quartered at each level, and a series ends at its first zero term
FxAtanhSteps(t2, lo, hi, st) ==
    IF lo = hi
    THEN [pw |-> FxMul(st.pw, t2),
          acc |-> BigAdd(st.acc, BigDivSmall(st.pw, 2 * lo + 1).q)]
    ELSE LET n == (hi - lo + 1) \div 4
             a == FxAtanhSteps(t2, lo, lo + n - 1, st)
             b == FxAtanhSteps(t2, lo + n, lo + 2 * n - 1, a)
             c == FxAtanhSteps(t2, lo + 2 * n, lo + 3 * n - 1, b)
         IN  IF a.pw = <<>> THEN a
             ELSE IF b.pw = <<>> THEN b
             ELSE IF c.pw = <<>> THEN c
             ELSE FxAtanhSteps(t2, lo + 3 * n, hi, c)

\* t + t^3/3 + t^5/5 + ... given t^2 and t, t in any fixed-point scale
FxAtanhSum(t2, t) ==
    FxAtanhSteps(t2, 0, SeriesTerms - 1, [pw |-> t, acc |-> <<>>]).acc

\* atanh(t) for 0 <= t <= 1/3
FxAtanh(t) == FxAtanhSum(FxMul(t, t), t)

\* ln 2 = 2 atanh(1/3) in fixed point: the value of
\* BigShl(FxAtanh(BigDivSmall(FxOne, 3).q), 1), within 2^-100 of ln 2
Ln2Fx == <<12264, 3790, 24143, 30618, 31289, 1533, 22713>>

RECURSIVE FxExpSteps(_, _, _, _)
\* the terms lo..hi of e^-r = (1 + r^2/2! + r^4/4! + ...) - (r + r^3/3! +
\* ...): st.t is r^lo/lo!, st.even and st.odd the sums of the terms before
FxExpSteps(r, lo, hi, st) ==
    IF lo = hi
    THEN [t |-> BigDivSmall(FxMul(st.t, r), lo + 1).q,
          even |-> IF lo % 2 = 0 THEN BigAdd(st.even, st.t) ELSE st.even,
          odd |-> IF lo % 2 = 1 THEN BigAdd(st.odd, st.t) ELSE st.odd]
    ELSE LET n == (hi - lo + 1) \div 4
             a == FxExpSteps(r, lo, lo + n - 1, st)
             b == FxExpSteps(r, lo + n, lo + 2 * n - 1, a)
             c == FxExpSteps(r, lo + 2 * n, lo + 3 * n - 1, b)
         IN  IF a.t = <<>> THEN a
             ELSE IF b.t = <<>> THEN b
             ELSE IF c.t = <<>> THEN c
             ELSE FxExpSteps(r, lo + 3 * n, hi, c)

\* e^-r for 0 <= r < 1
FxExpNeg(r) ==
    IF r = <<>> THEN FxOne
    ELSE LET st == FxExpSteps(r, 0, SeriesTerms - 1,
                              [t |-> FxOne, even |-> <<>>, odd |-> <<>>])
         IN  BigSub(st.even, st.odd)

\* 2^-q e^-r rounded, for d = [q, r] with |x| = q ln 2 + r
MathExpOf(d) == FRound(FxExpNeg(d.r), -FxBits - BigToInt(d.q), TRUE)

\* math.exp(x) for x <= 0 (the library never calls it with x > 0):
\* e^x = 2^-n * e^-r with |x| = n ln 2 + r; an underflow gives a subnormal
\* or 0.0 without an error, and math.exp(-inf) is 0.0
MathExp(x) ==
    IF ~IsFinite(x) THEN FZero
    ELSE IF x.m = <<>> THEN FOne
    ELSE IF x.e + BigBitLen(x.m) > 11 THEN FZero
    ELSE MathExpOf(BigDivMod(FxOfFloat(x), Ln2Fx))

\* floor(log2 |x|) for a float x # 0
FloorLog2(x) == x.e + BigBitLen(x.m) - 1

RECURSIVE BigSqrtSteps(_, _, _, _)
\* the integer square root of a, bit by bit from bit hi down to bit lo: r is
\* the root found so far, and a bit is set if the square stays within a
\* (the range is quartered at each level, one quarter settled before the
\* next; a root equal to a, of 0 or 1, is already complete)
BigSqrtSteps(a, hi, lo, r) ==
    IF hi < lo THEN r
    ELSE IF hi = lo
    THEN LET c == BigAdd(r, BigShl(<<1>>, hi))
         IN  IF BigCmp(BigMul(c, c), a) <= 0 THEN c ELSE r
    ELSE LET n  == hi - lo + 1
             r1 == BigSqrtSteps(a, hi, hi - (n \div 4) + 1, r)
             r2 == BigSqrtSteps(a, hi - (n \div 4), hi - (n \div 2) + 1, r1)
             r3 == BigSqrtSteps(a, hi - (n \div 2), hi - ((3 * n) \div 4) + 1, r2)
         IN  IF r1 = a THEN r1
             ELSE IF r2 = a THEN r2
             ELSE IF r3 = a THEN r3
             ELSE BigSqrtSteps(a, hi - ((3 * n) \div 4), lo, r3)

\* floor(sqrt(a))
BigSqrt(a) == BigSqrtSteps(a, BigBitLen(a) \div 2, 0, <<>>)

\* math.sqrt(x) for a float x >= 0: the root of the mantissa, widened to
\* 2 * MantBits + 4 bits or more at an even exponent, rounded (sticky when
\* the root is not exact)
\* the root r of a rounded at exponent e, sticky when it is not exact
SqrtRounded(a, r, e) == FRound(r, e, BigMul(r, r) # a)

\* the root of x.m * 2^sh at exponent (x.e - sh) / 2
SqrtShifted(x, sh, a) == SqrtRounded(a, BigSqrt(a), (x.e - sh) \div 2)

SqrtAt(x, sh) == SqrtShifted(x, sh, BigShl(x.m, sh))

MathSqrt(x) ==
    IF x.m = <<>> THEN FZero
    ELSE SqrtAt(x, 2 * MantBits + 4 - BigBitLen(x.m) + ((x.e + BigBitLen(x.m)) % 2))

\* math.pi, the float nearest to pi
MathPi == PyFloat(FALSE, <<11544, 10376, 2029, 201>>, -51)

\* 2 / sqrt(pi) in fixed point, within 2^-100 of it
TwoOverSqrtPiFx == <<32175, 9299, 22301, 27921, 1334, 23873, 4206, 1>>

RECURSIVE FxErfSteps(_, _, _, _)
\* the terms lo..hi of x + 2 x^3/3 + 4 x^5/(3*5) + ...: st.t is
\* 2^lo x^(2 lo + 1) / (1*3*...*(2 lo + 1)), st.acc the sum of the terms
\* before it; x2 is 2 x^2
FxErfSteps(x2, lo, hi, st) ==
    IF lo = hi
    THEN [t |-> BigDivSmall(FxMul(st.t, x2), 2 * lo + 3).q,
          acc |-> BigAdd(st.acc, st.t)]
    ELSE LET n == (hi - lo + 1) \div 4
             a == FxErfSteps(x2, lo, lo + n - 1, st)
             b == FxErfSteps(x2, lo + n, lo + 2 * n - 1, a)
             c == FxErfSteps(x2, lo + 2 * n, lo + 3 * n - 1, b)
         IN  IF a.t = <<>> THEN a
             ELSE IF b.t = <<>> THEN b
             ELSE IF c.t = <<>> THEN c
             ELSE FxErfSteps(x2, lo + 3 * n, hi, c)

\* erf for X = |x| and X2 = x^2 in fixed point, x^2 = d.q ln 2 + d.r
ErfReduced(X, X2, d) ==
    FRound(FxMul(FxMul(FxErfSteps(BigShl(X2, 1), 0, SeriesTerms - 1,
                                  [t |-> X, acc |-> <<>>]).acc,
                       FxExpNeg(d.r)),
                 TwoOverSqrtPiFx),
           -FxBits - BigToInt(d.q), TRUE)

ErfOf(X, X2) == ErfReduced(X, X2, BigDivMod(X2, Ln2Fx))

\* math.erf(x) for a finite float x: 2/sqrt(pi) * e^(-x^2) * (x + 2 x^3/3 +
\* ...) in fixed point for 2^-30 <= |x| < 6, 2 x / sqrt(pi) below (the next
\* term is beyond the float's precision) and 1.0 from 6 on, where 1 - erf(x)
\* is below half an ulp of 1.0. The value is the correctly rounded one; a C
\* library's erf may differ from it in the last bit, so properties that
\* depend on erf away from 0 are stated with a tolerance
MathErf(x) ==
    IF x.m = <<>> THEN x
    ELSE IF FloorLog2(x) < -30
    THEN FSigned(x.neg, FRound(BigMul(x.m, TwoOverSqrtPiFx), x.e - FxBits, TRUE))
    ELSE IF FCmpAbs(x, PyInt(<<6>>)) >= 0 THEN FSigned(x.neg, FOne)
    ELSE FSigned(x.neg, ErfOf(FxOfFloat(x), FxMul(FxOfFloat(x), FxOfFloat(x))))

(***************************************************************************)
(* src/discrete.py, the Poisson distribution                               *)
(***************************************************************************)
\* the result of a float operation that raises OverflowError when too large
ReturnFinite(r) == IF IsFinite(r) THEN Return(r) ELSE Raise("OverflowError", "")

\* x ** k for a float x and an int k >= 0 (float_pow): C pow(x, float(k)),
\* the exact power rounded.  A result too large raises OverflowError; an
\* underflow gives a subnormal or 0.0 without an error.  The two bounds on
\* the exponent settle a certain overflow or underflow without the power.
PyFloatPow(x, k) ==
    IF k = 0 THEN Return(FOne)
    ELSE IF x.m = <<>> THEN Return(FZero)
    ELSE IF FloorLog2(x) * k >= MaxBits THEN Raise("OverflowError", "")
    ELSE IF (FloorLog2(x) + 1) * k < MinExp - 1
    THEN Return(FSigned(x.neg /\ k % 2 = 1, FZero))
    ELSE ReturnFinite(FSigned(x.neg /\ k % 2 = 1, FPow(x, k)))

\* poisson, the input validations and the early return for a very large k
PoissonValidate(lam, k) ==
    IF FCmp(lam, PyInt(<<>>)) <= 0 THEN Raise("ValueError", "lam")
    ELSE IF k < 0 THEN Raise("ValueError", "k")
    ELSE IF k > 1000 /\ FCmp(lam, PyInt(<<10>>)) < 0 THEN Return(FZero)
    ELSE Continue

\* poisson, the main computation: out is its outcome, evaluated the
\* arguments factorial was called with
PoissonQuotient(k, numerator, asFloat) ==
    IF ~IsFinite(asFloat)
    THEN [out |-> Raise("OverflowError", ""), evaluated |-> <<k>>]
    ELSE [out |-> Return(FDiv(numerator, asFloat)), evaluated |-> <<k>>]

\* power is the outcome of lam ** k; the numerator is computed, then
\* factorial(k), converted to float by the division
PoissonWith(lam, k, power) ==
    IF power.tag = "raise" THEN [out |-> power, evaluated |-> <<>>]
    ELSE PoissonQuotient(k, FMul(power.val, MathExp(FNeg(lam))),
                         IntToFloat(factorial(k).val.m))

PoissonMain(lam, k) == PoissonWith(lam, k, PyFloatPow(lam, k))

PoissonRun(lam, k) ==
    LET checked == PoissonValidate(lam, k)
    IN  IF checked.tag # "continue" THEN [out |-> checked, evaluated |-> <<>>]
        ELSE PoissonMain(lam, k)

poisson(lam, k) == PoissonRun(lam, k).out

RECURSIVE SumPoisson(_, _, _, _, _)
\* the step of SumPoisson for the term poisson(lam, i)
SumPoissonTerm(lam, i, stop, acc, evaluated, term) ==
    IF term.tag = "raise"
    THEN [out |-> term, evaluated |-> Append(evaluated, i)]
    ELSE SumPoisson(lam, i + 1, stop, PyAdd(acc, term.val), Append(evaluated, i))

\* sum(poisson(lam, i) for i in range(stop)) from index i on: acc is the
\* running sum (it starts as the int 0), evaluated the indices for which
\* poisson has been called; an exception ends the loop
SumPoisson(lam, i, stop, acc, evaluated) ==
    IF i >= stop
    THEN [out |-> Return(acc), evaluated |-> evaluated]
    ELSE SumPoissonTerm(lam, i, stop, acc, evaluated, poisson(lam, i))

\* poisson_cumulative: its outcome and the indices it called poisson for
PoissonCumulativeRun(lam, k) ==
    IF k < 0
    THEN [out |-> Return(FZero), evaluated |-> <<>>]
    ELSE SumPoisson(lam, 0, k + 1, PyInt(<<>>), <<>>)

poisson_cumulative(lam, k) == PoissonCumulativeRun(lam, k).out

(***************************************************************************)
(* src/continuous.py                                                       *)
(***************************************************************************)
\* v <= 0 (a float compared with the int 0)
NotPositive(v) == FCmp(v, PyInt(<<>>)) <= 0

\* 0 < p < 1 (a chained comparison of a float with the ints 0 and 1)
StrictlyInUnit(p) == FCmp(PyInt(<<>>), p) < 0 /\ FCmp(p, PyInt(<<1>>)) < 0

Two == FloatLit(FALSE, 2, 1)

\* -2 atanh(T / 2^(FxBits + s)), t being T in fixed point
LogAtanh(T, t, s) ==
    FSigned(TRUE, FRound(FxAtanhSum(FxMul(t, t), T), 1 - FxBits - s, TRUE))

\* -2 atanh(N / D) for the quotient T = N / D kept to FxBits + s places
LogQuotient(T, s) == LogAtanh(T, BigShr(T, s), s)

LogShifted(N, D, s) == LogQuotient(BigDivMod(BigShl(N, FxBits + s), D).q, s)

\* ln y for 1/2 <= y < 1 with N = 1 - y and D = 1 + y (scaled alike)
LogNearOne(N, D) == LogShifted(N, D, BigBitLen(D) - BigBitLen(N))

\* ln y for y = m / 2^E with 1 <= m < 2 (m in fixed point)
LogReduced(y, m) ==
    FSigned(TRUE,
            FRound(BigSub(BigMulSmall(Ln2Fx, -FloorLog2(y)),
                          BigShl(FxAtanh(BigDivMod(BigShl(BigSub(m, FxOne), FxBits),
                                                   BigAdd(m, FxOne)).q), 1)),
                   -FxBits, TRUE))

\* math.log(y) for a float 0 < y <= 1 (the library calls it with 1 - p):
\* for y >= 1/2, -2 atanh((1 - y)/(1 + y)), the quotient kept to FxBits
\* significant bits; below, ln y = -E ln 2 + 2 atanh((m - 1)/(m + 1)) with
\* y = m / 2^E, 1 <= m < 2
MathLog(y) ==
    IF FCmp(y, FOne) = 0 THEN FZero
    ELSE IF FloorLog2(y) = -1
    THEN LogNearOne(BigSub(BigShl(<<1>>, -y.e), y.m), BigAdd(BigShl(<<1>>, -y.e), y.m))
    ELSE LogReduced(y, BigShl(y.m, FxBits - (BigBitLen(y.m) - 1)))

\* Mutant of _standard_normal_cdf: erf is taken at z, not at z / sqrt(2).
standard_normal_cdf_NoRootTwo(z) ==
    FMulS(FloatLit(FALSE, 1, 2), FAddS(FOne, MathErf(z)))

\* _standard_normal_cdf
standard_normal_cdf(z) ==
    FMulS(FloatLit(FALSE, 1, 2), FAddS(FOne, MathErf(FDiv(z, MathSqrt(Two)))))

\* coefficient * exp(-0.5 * squared), squared the outcome of the power
NormalDensity(coefficient, squared) ==
    IF squared.tag = "raise" THEN squared
    ELSE Return(FMulS(coefficient, MathExp(FMulS(FloatLit(TRUE, 1, 2), squared.val))))

\* normal_pdf: the coefficient is computed first, then the exponent, whose
\* square is a float power and raises OverflowError when too large
normal_pdf(x, mu, sigma) ==
    IF NotPositive(sigma) THEN Raise("ValueError", "sigma")
    ELSE NormalDensity(FDiv(FOne, FMulS(sigma, MathSqrt(FMulS(Two, MathPi)))),
                       PyFloatPow(FDiv(FSubS(x, mu), sigma), 2))

\* Mutant of normal_cdf: x is standardised as (x + mu) / sigma.
normal_cdf_WrongShift(x, mu, sigma) ==
    IF NotPositive(sigma) THEN Raise("ValueError", "sigma")
    ELSE Return(standard_normal_cdf(FDiv(FAddS(x, mu), sigma)))

normal_cdf(x, mu, sigma) ==
    IF NotPositive(sigma) THEN Raise("ValueError", "sigma")
    ELSE Return(standard_normal_cdf(FDiv(FSubS(x, mu), sigma)))

\* The standard normal quantile scipy.stats.norm.ppf is built on (scipy's
\* ndtri), on the probabilities the calls explored pass to it: the float
\* nearest to the exact quantile of the float p
NdtriDomain ==
    { PyFloat(FALSE, <<0, 0, 0, 128>>, -106),
      PyFloat(FALSE, <<6554, 13107, 26214, 204>>, -58),
      PyFloat(FALSE, <<6560, 13107, 26214, 204>>, -58),
      PyFloat(FALSE, <<6552, 13107, 26214, 204>>, -57),
      PyFloat(FALSE, <<6554, 13107, 26214, 204>>, -57),
      PyFloat(FALSE, <<6554, 13107, 26214, 204>>, -56),
      PyFloat(FALSE, <<0, 0, 0, 128>>, -54),
      PyFloat(FALSE, <<0, 0, 0, 128>>, -53),
      PyFloat(FALSE, <<0, 0, 0, 192>>, -53),
      PyFloat(FALSE, <<19661, 6553, 13107, 230>>, -53),
      PyFloat(FALSE, <<26214, 19660, 6553, 243>>, -53),
      PyFloat(FALSE, <<13107, 26214, 19660, 249>>, -53) }

Ndtri(p) ==
    CASE
         p = PyFloat(FALSE, <<0, 0, 0, 128>>, -106)
          -> PyFloat(TRUE, <<31820, 13228, 22209, 132>>, -49)   \* ndtri(5.551115123125783e-17) = -8.292361075813595
      [] p = PyFloat(FALSE, <<6554, 13107, 26214, 204>>, -58)
          -> PyFloat(TRUE, <<32645, 25565, 28684, 250>>, -52)   \* ndtri(0.025) = -1.9599639845400543
      [] p = PyFloat(FALSE, <<6560, 13107, 26214, 204>>, -58)
          -> PyFloat(TRUE, <<32643, 25565, 28684, 250>>, -52)   \* ndtri(0.025000000000000022) = -1.9599639845400538
      [] p = PyFloat(FALSE, <<6552, 13107, 26214, 204>>, -57)
          -> PyFloat(TRUE, <<27326, 4814, 17736, 210>>, -52)   \* ndtri(0.04999999999999999) = -1.6448536269514729
      [] p = PyFloat(FALSE, <<6554, 13107, 26214, 204>>, -57)
          -> PyFloat(TRUE, <<27325, 4814, 17736, 210>>, -52)   \* ndtri(0.05) = -1.6448536269514726
      [] p = PyFloat(FALSE, <<6554, 13107, 26214, 204>>, -56)
          -> PyFloat(TRUE, <<27954, 28100, 1264, 164>>, -52)   \* ndtri(0.1) = -1.2815515655446004
      [] p = PyFloat(FALSE, <<0, 0, 0, 128>>, -54)
          -> PyFloat(TRUE, <<2633, 3749, 21934, 172>>, -53)   \* ndtri(0.25) = -0.6744897501960817
      [] p = PyFloat(FALSE, <<0, 0, 0, 128>>, -53)
          -> PyFloat(FALSE, <<>>, 0)   \* ndtri(0.5) = 0.0
      [] p = PyFloat(FALSE, <<0, 0, 0, 192>>, -53)
          -> PyFloat(FALSE, <<2633, 3749, 21934, 172>>, -53)   \* ndtri(0.75) = 0.6744897501960817
      [] p = PyFloat(FALSE, <<19661, 6553, 13107, 230>>, -53)
          -> PyFloat(FALSE, <<27955, 28100, 1264, 164>>, -52)   \* ndtri(0.9) = 1.2815515655446006
      [] p = PyFloat(FALSE, <<26214, 19660, 6553, 243>>, -53)
          -> PyFloat(FALSE, <<27323, 4814, 17736, 210>>, -52)   \* ndtri(0.95) = 1.6448536269514722
      [] p = PyFloat(FALSE, <<13107, 26214, 19660, 249>>, -53)
          -> PyFloat(FALSE, <<32643, 25565, 28684, 250>>, -52)   \* ndtri(0.975) = 1.9599639845400538

\* scipy.stats.norm.ppf(p, loc, scale) = ndtri(p) * scale + loc
NormPpf(p, loc, scale) == FAddS(FMulS(Ndtri(p), scale), loc)

\* Mutant of normal_ppf: the value is computed whether or not scipy is there.
normal_ppf_NoAvailabilityCheck(p, mu, sigma, available) ==
    IF ~StrictlyInUnit(p) THEN Raise("ValueError", "p")
    ELSE IF NotPositive(sigma) THEN Raise("ValueError", "sigma")
    ELSE Return(NormPpf(p, mu, sigma))

\* Mutant of normal_ppf: availability is checked first, sigma before p.
normal_ppf_AvailabilityFirst(p, mu, sigma, available) ==
    IF ~available THEN Raise("ImportError", "")
    ELSE IF NotPositive(sigma) THEN Raise("ValueError", "sigma")
    ELSE IF ~StrictlyInUnit(p) THEN Raise("ValueError", "p")
    ELSE Return(NormPpf(p, mu, sigma))

\* normal_ppf; available is the module's SCIPY_AVAILABLE
normal_ppf(p, mu, sigma, available) ==
    IF ~StrictlyInUnit(p) THEN Raise("ValueError", "p")
    ELSE IF NotPositive(sigma) THEN Raise("ValueError", "sigma")
    ELSE IF ~available THEN Raise("ImportError", "")
    ELSE Return(NormPpf(p, mu, sigma))

z_score(x, mu, sigma) ==
    IF NotPositive(sigma) THEN Raise("ValueError", "sigma")
    ELSE Return(FDiv(FSubS(x, mu), sigma))

\* a returned tuple (lower, upper)
ReturnPair(a, b) ==
    [tag |-> "return", exc |-> "", param |-> "",
     val |-> [kind |-> "tuple", neg |-> FALSE, m |-> <<a, b>>, e |-> 0]]

\* alpha = (1 - confidence) / 2
IntervalAlpha(confidence) == FDiv(FSubS(FOne, confidence), IntToFloat(<<2>>))

\* the outcomes of the two normal_ppf calls, in the order made
IntervalOf(lower, upper) ==
    IF lower.tag = "raise" THEN lower
    ELSE IF upper.tag = "raise" THEN upper
    ELSE ReturnPair(lower.val, upper.val)

IntervalAt(alpha, mu, sigma, available) ==
    IntervalOf(normal_ppf(alpha, mu, sigma, available),
               normal_ppf(FSubS(FOne, alpha), mu, sigma, available))

\* normal_interval: the two percentiles are computed in turn, and an
\* exception of either call propagates
normal_interval(confidence, mu, sigma, available) ==
    IF ~StrictlyInUnit(confidence) THEN Raise("ValueError", "confidence")
    ELSE IntervalAt(IntervalAlpha(confidence), mu, sigma, available)

\* Mutant of exponential_pdf: the factor lam is missing.
exponential_pdf_NoRate(x, lam) ==
    IF NotPositive(lam) THEN Raise("ValueError", "lam")
    ELSE IF FCmp(x, PyInt(<<>>)) < 0 THEN Return(FZero)
    ELSE Return(MathExp(FMulS(FNeg(lam), x)))

exponential_pdf(x, lam) ==
    IF NotPositive(lam) THEN Raise("ValueError", "lam")
    ELSE IF FCmp(x, PyInt(<<>>)) < 0 THEN Return(FZero)
    ELSE Return(FMulS(lam, MathExp(FMulS(FNeg(lam), x))))

\* Mutant of exponential_cdf: x < 0 is answered before lam is validated.
exponential_cdf_ZeroFirst(x, lam) ==
    IF FCmp(x, PyInt(<<>>)) < 0 THEN Return(FZero)
    ELSE IF NotPositive(lam) THEN Raise("ValueError", "lam")
    ELSE Return(FSubS(FOne, MathExp(FMulS(FNeg(lam), x))))

exponential_cdf(x, lam) ==
    IF NotPositive(lam) THEN Raise("ValueError", "lam")
    ELSE IF FCmp(x, PyInt(<<>>)) < 0 THEN Return(FZero)
    ELSE Return(FSubS(FOne, MathExp(FMulS(FNeg(lam), x))))

\* Mutant of exponential_ppf: the quotient is not negated.
exponential_ppf_NoNegation(p, lam) ==
    IF ~StrictlyInUnit(p) THEN Raise("ValueError", "p")
    ELSE IF NotPositive(lam) THEN Raise("ValueError", "lam")
    ELSE Return(FDiv(MathLog(FSubS(FOne, p)), lam))

exponential_ppf(p, lam) ==
    IF ~StrictlyInUnit(p) THEN Raise("ValueError", "p")
    ELSE IF NotPositive(lam) THEN Raise("ValueError", "lam")
    ELSE Return(FDiv(FNeg(MathLog(FSubS(FOne, p))), lam))

exponential_mean(lam) ==
    IF NotPositive(lam) THEN Raise("ValueError", "lam")
    ELSE Return(FDiv(FOne, lam))

\* 1.0 / squared for the outcome squared of lam ** 2
InverseOf(squared) ==
    IF squared.tag = "raise" THEN squared
    ELSE IF squared.val.m = <<>> THEN Raise("ZeroDivisionError", "")
    ELSE Return(FDiv(FOne, squared.val))

\* exponential_variance: lam ** 2 is a float power, which raises
\* OverflowError when too large and gives 0.0 when too small, and 1.0 / 0.0
\* raises ZeroDivisionError
exponential_variance(lam) ==
    IF NotPositive(lam) THEN Raise("ValueError", "lam")
    ELSE InverseOf(PyFloatPow(lam, 2))

exponential_std(lam) ==
    IF NotPositive(lam) THEN Raise("ValueError", "lam")
    ELSE Return(FDiv(FOne, lam))

(***************************************************************************)
(* The library as a state machine.  It holds no state of its own: a caller *)
(* makes a call, the call runs to its outcome, and the caller takes the    *)
(* outcome.  call is the call made, result its outcome, evaluated the      *)
(* arguments of the calls it made within the library (the indices a        *)
(* cumulative function called its point function for, the argument poisson *)
(* called factorial with).  SCIPY_AVAILABLE is the flag the module sets    *)
(* when it is imported: whether the optional scipy could be imported.      *)
(* frames and locals are the calls of parallel workers (a worker's call,   *)
(* and the local variables of the function it is in), session the state    *)
(* of the terminal program of src/main.py.                                 *)
(***************************************************************************)
VARIABLES call, result, evaluated, SCIPY_AVAILABLE, frames, locals, session

vars == <<call, result, evaluated, SCIPY_AVAILABLE, frames, locals, session>>

\* Bounds of the inputs explored.
MaxN == 4

MaxFact == 8

MaxComb == 6

Half == FloatLit(FALSE, 1, 2)

\* p: below 0, 0.0, inside (0,1) (0.1, 0.2 and 0.3 are not binary fractions,
\* 0.5 is), 1.0, above 1
Probabilities ==
    { FloatLit(TRUE, 1, 2), FZero, FloatLit(FALSE, 1, 10), FloatLit(FALSE, 1, 5),
      FloatLit(FALSE, 3, 10), Half, FOne, FloatLit(FALSE, 3, 2) }

\* (n, k, p): a grid around the domain's edges, the documented example
\* binomial(10, 3, 0.5), and the smallest n whose central coefficient
\* exceeds the float range
BinomialInputs ==
    ((-1..MaxN) \X (-1..(MaxN + 1)) \X Probabilities)
        \cup {<<10, 3, Half>>, <<1030, 515, Half>>}

CumulativeInputs ==
    ((-1..MaxN) \X (-1..(MaxN + 1)) \X Probabilities) \cup {<<10, 3, Half>>}

NoCall ==
    [fn |-> "none", n |-> 0, k |-> 0, p |-> FZero, lam |-> FZero, x |-> FZero,
     mu |-> FZero, sigma |-> FZero, confidence |-> FZero]

NoResult == [tag |-> "none", exc |-> "", param |-> "", val |-> PyNone]

\* the parallel workers
Workers == {1, 2}

\* a worker that is in no call
NoFrame ==
    [pc |-> "idle", fn |-> "none", n |-> 0, k |-> 0, p |-> FZero, mu |-> FZero,
     sigma |-> FZero, out |-> NoResult]

\* the local variables of the loop of binomial_cumulative, before it starts
NoLocals == [i |-> 0, stop |-> 0, acc |-> PyInt(<<>>)]

\* The session of the terminal program: pc is where it is ("off" before it
\* starts, "menu", "prompt" and "again" at its three kinds of prompt,
\* "finally" in the finally block of main, "exited" after sys.exit;
\* "returned" and "raised" end a direct call of route_selection), entry what
\* was called (main or route_selection).  The other fields record the call
\* of route_selection in progress: its choice, the prompt the collector is
\* at and the values it has, the calls of collectors and handlers, the
\* library calls made, the calls of show_error, the parameters collected,
\* the panel shown, its return value, the last return value of ask_continue
\* and the answer it compared with 'y'; and for the process, the farewells
\* printed and the exit status.
NoSession ==
    [pc |-> "off", entry |-> "none", choice |-> <<>>, field |-> 0, got |-> <<>>,
     collectors |-> 0, handlers |-> 0, library |-> <<>>, errors |-> 0,
     cancelled |-> FALSE, params |-> [none |-> TRUE, values |-> <<>>],
     shown |-> [distribution |-> "", params |-> <<>>, formula |-> <<>>,
                result |-> FZero],
     returned |-> "none", again |-> "none", answer |-> <<>>, interrupted |-> FALSE,
     farewells |-> 0, status |-> -1]

Init ==
    /\ call = NoCall /\ result = NoResult /\ evaluated = <<>>
    /\ SCIPY_AVAILABLE \in BOOLEAN
    /\ frames = [w \in Workers |-> NoFrame]
    /\ locals = [w \in Workers |-> NoLocals]
    /\ session = NoSession

\* a call that records the calls it made: its outcome and those calls
Finish(run) == result' = run.out /\ evaluated' = run.evaluated

CallFactorial(n) ==
    /\ call.fn = "none"
    /\ call' = [NoCall EXCEPT !.fn = "factorial", !.n = n]
    /\ result' = factorial(n)
    /\ evaluated' = <<>>
    /\ UNCHANGED <<SCIPY_AVAILABLE, frames, locals, session>>

CallCombinations(n, k) ==
    /\ call.fn = "none"
    /\ call' = [NoCall EXCEPT !.fn = "combinations", !.n = n, !.k = k]
    /\ result' = combinations(n, k)
    /\ evaluated' = <<>>
    /\ UNCHANGED <<SCIPY_AVAILABLE, frames, locals, session>>

CallBinomial(n, k, p) ==
    /\ call.fn = "none"
    /\ call' = [NoCall EXCEPT !.fn = "binomial", !.n = n, !.k = k, !.p = p]
    /\ result' = binomial(n, k, p)
    /\ evaluated' = <<>>
    /\ UNCHANGED <<SCIPY_AVAILABLE, frames, locals, session>>

CallBinomialCumulative(n, k, p) ==
    /\ call.fn = "none"
    /\ call' = [NoCall EXCEPT !.fn = "binomial_cumulative", !.n = n, !.k = k,
                                !.p = p]
    /\ Finish(BinomialCumulativeRun(n, k, p))
    /\ UNCHANGED <<SCIPY_AVAILABLE, frames, locals, session>>

\* the caller has the outcome (a value, or the exception, which nothing in
\* the library catches); the next call can be made
TakeOutcome ==
    /\ call.fn # "none"
    /\ call' = NoCall
    /\ result' = NoResult
    /\ evaluated' = <<>>
    /\ UNCHANGED <<SCIPY_AVAILABLE, frames, locals, session>>

Next ==
    \/ \E n \in -2..MaxFact : CallFactorial(n)
    \/ \E n \in -2..MaxComb, k \in -2..MaxComb : CallCombinations(n, k)
    \/ \E a \in BinomialInputs : CallBinomial(a[1], a[2], a[3])
    \/ \E a \in CumulativeInputs : CallBinomialCumulative(a[1], a[2], a[3])
    \/ TakeOutcome

Spec == Init /\ [][Next]_vars

(***************************************************************************)
(* The Poisson functions of src/discrete.py, called the same way.          *)
(***************************************************************************)
\* Bound of the event counts explored.
MaxK == 5

Four == FloatLit(FALSE, 4, 1)

Eighth == FloatLit(FALSE, 1, 8)

\* lambda: below 0, 0.0, small rates (0.001 is not a binary fraction, 0.125
\* and 0.5 are), 4.0, and 10.0 where the early return for k > 1000 ends
Rates ==
    { FloatLit(TRUE, 1, 1), FZero, FloatLit(FALSE, 1, 1000), Eighth, Half, Four,
      FloatLit(FALSE, 10, 1) }

\* (lambda, k): a grid around the domain's edges, the last k whose factorial
\* is a float (170) and the next, the two sides of the early return
PoissonInputs ==
    (Rates \X (-1..MaxK))
        \cup {<<Four, 170>>, <<Four, 171>>, <<Four, 1000>>, <<Four, 1001>>,
              <<FloatLit(FALSE, 10, 1), 1001>>, <<FloatLit(TRUE, 1, 1), 1001>>}

\* the grid, the documented example poisson_cumulative(4.0, 3), and a sum
\* of eleven terms
PoissonCumulativeInputs ==
    (Rates \X (-1..MaxK)) \cup {<<Four, 3>>, <<Eighth, 10>>}

CallPoisson(lam, k) ==
    /\ call.fn = "none"
    /\ call' = [NoCall EXCEPT !.fn = "poisson", !.lam = lam, !.k = k]
    /\ Finish(PoissonRun(lam, k))
    /\ UNCHANGED <<SCIPY_AVAILABLE, frames, locals, session>>

CallPoissonCumulative(lam, k) ==
    /\ call.fn = "none"
    /\ call' = [NoCall EXCEPT !.fn = "poisson_cumulative", !.lam = lam, !.k = k]
    /\ Finish(PoissonCumulativeRun(lam, k))
    /\ UNCHANGED <<SCIPY_AVAILABLE, frames, locals, session>>

NextPoisson ==
    \/ \E a \in PoissonInputs : CallPoisson(a[1], a[2])
    \/ \E a \in PoissonCumulativeInputs : CallPoissonCumulative(a[1], a[2])
    \/ TakeOutcome

SpecPoisson == Init /\ [][NextPoisson]_vars

(***************************************************************************)
(* The functions of src/continuous.py, called the same way.                *)
(***************************************************************************)
Three == FloatLit(FALSE, 3, 1)

MinusOne == FloatLit(TRUE, 1, 1)

\* 2.0 ** 512, whose square is not a float
TwoTo512 == PyFloat(FALSE, <<0, 0, 0, 128>>, 460)

\* 2.0 ** 60, where the floats are 256 apart
TwoTo60 == PyFloat(FALSE, <<0, 0, 0, 128>>, 8)

\* 1e6
Million == PyFloat(FALSE, <<0, 0, 4608, 244>>, -33)

\* 1 - 2 ** -53, the float just below 1.0
BelowOne == PyFloat(FALSE, <<32767, 32767, 32767, 255>>, -53)

\* 2 ** -60
Tiny == PyFloat(FALSE, <<0, 0, 0, 128>>, -112)

\* 1e200 and 1e-200, whose squares are not floats other than 0.0
Huge == PyFloat(FALSE, <<25178, 12206, 7267, 167>>, 612)

Minute == PyFloat(FALSE, <<30636, 10909, 31304, 195>>, -717)

Points == { MinusOne, FZero, FOne, Three, TwoTo512 }

Means == { FZero, FOne, Three }

\* sigma: below 0, 0.0, and two valid deviations
Deviations == { MinusOne, FZero, FOne, Two }

NormalInputs == Points \X Means \X Deviations

\* p: both ends of (0, 1), outside it, and the probabilities of NdtriDomain
\* other than 2 ** -54
PpfProbabilities ==
    { FZero, FOne, FloatLit(TRUE, 1, 2), FloatLit(FALSE, 3, 2) }
        \cup { p \in NdtriDomain : FloorLog2(p) > -10 }

\* the grid, and a mean at 1e6 and at 2 ** 60 deviations from 0
PpfInputs ==
    (PpfProbabilities \X Means \X Deviations)
        \cup { <<PyFloat(FALSE, <<13107, 26214, 19660, 249>>, -53), Million, FOne>>,
               <<PyFloat(FALSE, <<13107, 26214, 19660, 249>>, -53), TwoTo60, FOne>> }

\* confidence: both ends of (0, 1), outside it, the usual levels, and the
\* floats nearest to the ends
Confidences ==
    { FZero, FOne, FloatLit(TRUE, 1, 2), FloatLit(FALSE, 3, 2), Half,
      PyFloat(FALSE, <<19661, 6553, 13107, 230>>, -53), PyFloat(FALSE, <<26214, 19660, 6553, 243>>, -53), BelowOne, Tiny }

IntervalInputs == Confidences \X Means \X Deviations

\* 5e-324, the least positive float
Least == PyFloat(FALSE, <<1>>, MinExp)

\* lambda: below 0, 0.0, two valid rates, the two extremes, and the least
\* positive float
ExponentialRates == { MinusOne, FZero, Half, Two, Huge, Minute, Least }

ExponentialPoints == { MinusOne, FZero, Half, FOne }

ExponentialProbabilities ==
    { FZero, FOne, FloatLit(TRUE, 1, 2), FloatLit(FALSE, 3, 2), Half, PyFloat(FALSE, <<19661, 6553, 13107, 230>>, -53) }

CallNormalPdf(x, mu, sigma) ==
    /\ call.fn = "none"
    /\ call' = [NoCall EXCEPT !.fn = "normal_pdf", !.x = x, !.mu = mu,
                              !.sigma = sigma]
    /\ result' = normal_pdf(x, mu, sigma)
    /\ evaluated' = <<>>
    /\ UNCHANGED <<SCIPY_AVAILABLE, frames, locals, session>>

CallNormalCdf(x, mu, sigma) ==
    /\ call.fn = "none"
    /\ call' = [NoCall EXCEPT !.fn = "normal_cdf", !.x = x, !.mu = mu,
                              !.sigma = sigma]
    /\ result' = normal_cdf(x, mu, sigma)
    /\ evaluated' = <<>>
    /\ UNCHANGED <<SCIPY_AVAILABLE, frames, locals, session>>

CallZScore(x, mu, sigma) ==
    /\ call.fn = "none"
    /\ call' = [NoCall EXCEPT !.fn = "z_score", !.x = x, !.mu = mu,
                              !.sigma = sigma]
    /\ result' = z_score(x, mu, sigma)
    /\ evaluated' = <<>>
    /\ UNCHANGED <<SCIPY_AVAILABLE, frames, locals, session>>

CallNormalPpf(p, mu, sigma) ==
    /\ call.fn = "none"
    /\ call' = [NoCall EXCEPT !.fn = "normal_ppf", !.p = p, !.mu = mu,
                              !.sigma = sigma]
    /\ result' = normal_ppf(p, mu, sigma, SCIPY_AVAILABLE)
    /\ evaluated' = <<>>
    /\ UNCHANGED <<SCIPY_AVAILABLE, frames, locals, session>>

CallNormalInterval(confidence, mu, sigma) ==
    /\ call.fn = "none"
    /\ call' = [NoCall EXCEPT !.fn = "normal_interval",
                              !.confidence = confidence, !.mu = mu,
                              !.sigma = sigma]
    /\ result' = normal_interval(confidence, mu, sigma, SCIPY_AVAILABLE)
    /\ evaluated' = <<>>
    /\ UNCHANGED <<SCIPY_AVAILABLE, frames, locals, session>>

CallExponentialPdf(x, lam) ==
    /\ call.fn = "none"
    /\ call' = [NoCall EXCEPT !.fn = "exponential_pdf", !.x = x, !.lam = lam]
    /\ result' = exponential_pdf(x, lam)
    /\ evaluated' = <<>>
    /\ UNCHANGED <<SCIPY_AVAILABLE, frames, locals, session>>

CallExponentialCdf(x, lam) ==
    /\ call.fn = "none"
    /\ call' = [NoCall EXCEPT !.fn = "exponential_cdf", !.x = x, !.lam = lam]
    /\ result' = exponential_cdf(x, lam)
    /\ evaluated' = <<>>
    /\ UNCHANGED <<SCIPY_AVAILABLE, frames, locals, session>>

CallExponentialPpf(p, lam) ==
    /\ call.fn = "none"
    /\ call' = [NoCall EXCEPT !.fn = "exponential_ppf", !.p = p, !.lam = lam]
    /\ result' = exponential_ppf(p, lam)
    /\ evaluated' = <<>>
    /\ UNCHANGED <<SCIPY_AVAILABLE, frames, locals, session>>

CallExponentialMean(lam) ==
    /\ call.fn = "none"
    /\ call' = [NoCall EXCEPT !.fn = "exponential_mean", !.lam = lam]
    /\ result' = exponential_mean(lam)
    /\ evaluated' = <<>>
    /\ UNCHANGED <<SCIPY_AVAILABLE, frames, locals, session>>

CallExponentialVariance(lam) ==
    /\ call.fn = "none"
    /\ call' = [NoCall EXCEPT !.fn = "exponential_variance", !.lam = lam]
    /\ result' = exponential_variance(lam)
    /\ evaluated' = <<>>
    /\ UNCHANGED <<SCIPY_AVAILABLE, frames, locals, session>>

CallExponentialStd(lam) ==
    /\ call.fn = "none"
    /\ call' = [NoCall EXCEPT !.fn = "exponential_std", !.lam = lam]
    /\ result' = exponential_std(lam)
    /\ evaluated' = <<>>
    /\ UNCHANGED <<SCIPY_AVAILABLE, frames, locals, session>>

NextContinuous ==
    \/ \E a \in NormalInputs : CallNormalPdf(a[1], a[2], a[3])
    \/ \E a \in NormalInputs : CallNormalCdf(a[1], a[2], a[3])
    \/ \E a \in NormalInputs : CallZScore(a[1], a[2], a[3])
    \/ \E a \in PpfInputs : CallNormalPpf(a[1], a[2], a[3])
    \/ \E a \in IntervalInputs : CallNormalInterval(a[1], a[2], a[3])
    \/ \E x \in ExponentialPoints, lam \in ExponentialRates :
           CallExponentialPdf(x, lam)
    \/ \E x \in ExponentialPoints, lam \in ExponentialRates :
           CallExponentialCdf(x, lam)
    \/ \E p \in ExponentialProbabilities, lam \in ExponentialRates :
           CallExponentialPpf(p, lam)
    \/ \E lam \in ExponentialRates : CallExponentialMean(lam)
    \/ \E lam \in ExponentialRates : CallExponentialVariance(lam)
    \/ \E lam \in ExponentialRates : CallExponentialStd(lam)
    \/ TakeOutcome

SpecContinuous == Init /\ [][NextContinuous]_vars

(***************************************************************************)
(* The binomial moments of src/discrete.py.  Their n is a Python int of    *)
(* any size and sign, kept in call.n as a PyInt with its sign.             *)
(***************************************************************************)
\* float(n) for an int n of either sign, inf for "too large"
IntAsFloat(n) == FSigned(n.neg, IntToFloat(n.m))

\* n * p, nf being float(n): the int is converted first, which raises
\* OverflowError when it is too large
MeanOf(nf, p) ==
    IF ~IsFinite(nf) THEN Raise("OverflowError", "")
    ELSE Return(FMulS(nf, p))

binomial_mean(n, p) == MeanOf(IntAsFloat(n), p)

\* n * p * (1 - p), evaluated left to right
VarianceOf(nf, p) ==
    IF ~IsFinite(nf) THEN Raise("OverflowError", "")
    ELSE Return(FMulS(FMulS(nf, p), FSubS(FOne, p)))

binomial_variance(n, p) == VarianceOf(IntAsFloat(n), p)

\* math.sqrt of the outcome of binomial_variance: ValueError (math domain
\* error) below 0, -0.0 for -0.0 and inf for inf
StdOf(variance) ==
    IF variance.tag = "raise" THEN variance
    ELSE IF variance.val.m = <<>> /\ IsFinite(variance.val) THEN variance
    ELSE IF variance.val.neg THEN Raise("ValueError", "")
    ELSE IF ~IsFinite(variance.val) THEN variance
    ELSE Return(MathSqrt(variance.val))

\* Mutant of binomial_std: the root of the absolute value of the variance.
binomial_std_OfAbsolute(n, p) ==
    IF ~IsFinite(IntToFloat(n.m)) THEN Raise("OverflowError", "")
    ELSE Return(MathSqrt(FMul(FMul(IntToFloat(n.m), p), FSubS(FOne, p))))

binomial_std(n, p) == StdOf(binomial_variance(n, p))

Negative(n) == FSigned(TRUE, PyInt(BigOfInt(n)))

\* n: below 0, 0, a few counts of trials, and 2^1024, the least int that
\* is too large for a float
MomentCounts ==
    { Negative(2), Negative(1), PyInt(<<>>), PyInt(<<1>>), PyInt(<<2>>),
      PyInt(<<10>>), PyInt(<<100>>), PyInt(BigShl(<<1>>, MaxBits)) }

CallBinomialMean(n, p) ==
    /\ call.fn = "none"
    /\ call' = [NoCall EXCEPT !.fn = "binomial_mean", !.n = n, !.p = p]
    /\ result' = binomial_mean(n, p)
    /\ evaluated' = <<>>
    /\ UNCHANGED <<SCIPY_AVAILABLE, frames, locals, session>>

CallBinomialVariance(n, p) ==
    /\ call.fn = "none"
    /\ call' = [NoCall EXCEPT !.fn = "binomial_variance", !.n = n, !.p = p]
    /\ result' = binomial_variance(n, p)
    /\ evaluated' = <<>>
    /\ UNCHANGED <<SCIPY_AVAILABLE, frames, locals, session>>

CallBinomialStd(n, p) ==
    /\ call.fn = "none"
    /\ call' = [NoCall EXCEPT !.fn = "binomial_std", !.n = n, !.p = p]
    /\ result' = binomial_std(n, p)
    /\ evaluated' = <<>>
    /\ UNCHANGED <<SCIPY_AVAILABLE, frames, locals, session>>

NextMoments ==
    \/ \E n \in MomentCounts, p \in Probabilities : CallBinomialMean(n, p)
    \/ \E n \in MomentCounts, p \in Probabilities : CallBinomialVariance(n, p)
    \/ \E n \in MomentCounts, p \in Probabilities : CallBinomialStd(n, p)
    \/ TakeOutcome

SpecMoments == Init /\ [][NextMoments]_vars

(***************************************************************************)
(* Parallel workers calling the library.  A worker's call of               *)
(* binomial_cumulative runs one iteration of its loop at a time, so that   *)
(* the calls of the workers interleave; its loop variables are locals of   *)
(* its own activation of the function.  The only module-level name a       *)
(* function reads is SCIPY_AVAILABLE, and none is written.                 *)
(***************************************************************************)
\* Mutant of FrameOf: one activation record for all the workers, as if the
\* loop variables were module-level.
FrameOf_Shared(w) == 1

\* the activation record that holds the locals of worker w's call
FrameOf(w) == w

WorkerInputs ==
    {2, 3} \X {-1, 1, 2} \X {Half, FloatLit(FALSE, 3, 10), FloatLit(FALSE, 3, 2)}

\* (p, mu, sigma): a valid call, sigma = 0, p = 0
WorkerPpfInputs == { <<Half, FOne, Two>>, <<Half, FZero, FZero>>, <<FZero, FOne, FOne>> }

\* worker w calls binomial_cumulative(n, k, p) and reaches its loop, or
\* returns 0.0 for k < 0
WorkerCallCumulative(w, n, k, p) ==
    /\ frames[w].pc = "idle"
    /\ frames' = [frames EXCEPT ![w] =
                      [NoFrame EXCEPT !.fn = "binomial_cumulative", !.n = n, !.k = k,
                                      !.p = p,
                                      !.pc = IF k < 0 THEN "done" ELSE "loop",
                                      !.out = IF k < 0 THEN Return(FZero) ELSE NoResult]]
    /\ locals' = IF k < 0 THEN locals
                 ELSE [locals EXCEPT ![FrameOf(w)] =
                          [i |-> 0, stop |-> (IF k >= n THEN n ELSE k) + 1,
                           acc |-> PyInt(<<>>)]]
    /\ UNCHANGED <<call, result, evaluated, SCIPY_AVAILABLE, session>>

\* the end of worker w's call with the outcome out
WorkerDone(w, out) ==
    /\ frames' = [frames EXCEPT ![w].pc = "done", ![w].out = out]
    /\ UNCHANGED locals

\* one iteration for the term binomial(n, i, p): an exception ends the call,
\* a value is added to the running sum
WorkerAdd(w, l, term) ==
    IF term.tag = "raise" THEN WorkerDone(w, term)
    ELSE /\ locals' = [locals EXCEPT ![FrameOf(w)].i = l.i + 1,
                                      ![FrameOf(w)].acc = PyAdd(l.acc, term.val)]
         /\ UNCHANGED frames

\* the loop of worker w's call at its locals l: the sum is returned when the
\* range is exhausted
WorkerLoop(w, l) ==
    IF l.i >= l.stop THEN WorkerDone(w, Return(l.acc))
    ELSE WorkerAdd(w, l, binomial(frames[w].n, l.i, frames[w].p))

WorkerStep(w) ==
    /\ frames[w].pc = "loop"
    /\ WorkerLoop(w, locals[FrameOf(w)])
    /\ UNCHANGED <<call, result, evaluated, SCIPY_AVAILABLE, session>>

\* worker w calls normal_ppf(p, mu, sigma), which reads SCIPY_AVAILABLE
WorkerCallPpf(w, p, mu, sigma) ==
    /\ frames[w].pc = "idle"
    /\ frames' = [frames EXCEPT ![w] =
                      [NoFrame EXCEPT !.fn = "normal_ppf", !.p = p, !.mu = mu,
                                      !.sigma = sigma, !.pc = "done",
                                      !.out = normal_ppf(p, mu, sigma, SCIPY_AVAILABLE)]]
    /\ UNCHANGED <<call, result, evaluated, SCIPY_AVAILABLE, locals, session>>

\* worker w has the outcome of its call; the activation is gone
WorkerTake(w) ==
    /\ frames[w].pc = "done"
    /\ frames' = [frames EXCEPT ![w] = NoFrame]
    /\ locals' = [locals EXCEPT ![FrameOf(w)] = NoLocals]
    /\ UNCHANGED <<call, result, evaluated, SCIPY_AVAILABLE, session>>

NextWorkers ==
    \/ \E w \in Workers, a \in WorkerInputs : WorkerCallCumulative(w, a[1], a[2], a[3])
    \/ \E w \in Workers : WorkerStep(w)
    \/ \E w \in Workers, a \in WorkerPpfInputs : WorkerCallPpf(w, a[1], a[2], a[3])
    \/ \E w \in Workers : WorkerTake(w)

SpecWorkers == Init /\ [][NextWorkers]_vars

(***************************************************************************)
(* src/main.py: the terminal program.  A line typed by the user is a       *)
(* sequence of characters.  Prompt.ask of the rich library returns the     *)
(* line stripped of surrounding blanks, its default for an empty line,     *)
(* and with choices asks again until the answer is one of them.            *)
(***************************************************************************)
DigitOf ==
    ("0" :> 0) @@ ("1" :> 1) @@ ("2" :> 2) @@ ("3" :> 3) @@ ("4" :> 4) @@
    ("5" :> 5) @@ ("6" :> 6) @@ ("7" :> 7) @@ ("8" :> 8) @@ ("9" :> 9)

LowerOf ==
    ("A" :> "a") @@ ("F" :> "f") @@ ("I" :> "i") @@ ("N" :> "n") @@
    ("Q" :> "q") @@ ("Y" :> "y")

\* the positions of the characters of s that are not blank
NonBlank(s) == { i \in 1..Len(s) : s[i] # " " }

\* s[lo..hi] for the first and last position of a set of positions
Between(s, at) ==
    SubSeq(s, CHOOSE i \in at : \A j \in at : i <= j,
              CHOOSE i \in at : \A j \in at : i >= j)

\* str.strip()
Strip(s) == IF NonBlank(s) = {} THEN <<>> ELSE Between(s, NonBlank(s))

\* str.lower()
Lower(s) ==
    [i \in 1..Len(s) |-> IF s[i] \in DOMAIN LowerOf THEN LowerOf[s[i]] ELSE s[i]] \o <<>>

\* the int written by a non-empty sequence of digits
DigitsValue(d) ==
    SumOver([i \in 1..Len(d) |-> DigitOf[d[i]] * 10 ^ (Len(d) - i)])

\* a number text without its sign
Unsigned(s) == IF s # <<>> /\ s[1] \in {"+", "-"} THEN Tail(s) ELSE s

IsNegative(s) == s # <<>> /\ s[1] = "-"

AllDigits(s) == s # <<>> /\ \A i \in 1..Len(s) : s[i] \in DOMAIN DigitOf

\* int(raw) for a text of blanks, a sign and decimal digits: the value, or
\* ValueError
IntOf(s) ==
    IF AllDigits(Unsigned(s))
    THEN Return(FSigned(IsNegative(s) /\ DigitsValue(Unsigned(s)) # 0,
                        PyInt(BigOfInt(DigitsValue(Unsigned(s))))))
    ELSE Raise("ValueError", "")

int(raw) == IntOf(Strip(raw))

\* float('nan')
FNaN == [kind |-> "nan", neg |-> FALSE, m |-> <<>>, e |-> 0]

\* the digits of a decimal text without its point
WithoutPoint(s) == SelectSeq(s, LAMBDA c : c # ".")

\* the number of digits after the point
FractionDigits(s) ==
    IF \E i \in 1..Len(s) : s[i] = "."
    THEN Len(s) - (CHOOSE i \in 1..Len(s) : s[i] = ".")
    ELSE 0

\* float(raw) for an unsigned text in lower case: nan, inf, or decimal
\* digits with at most one point and at most four digits after it (no
\* exponent)
UnsignedFloatOf(neg, w) ==
    IF w = <<"n", "a", "n">> THEN Return(FNaN)
    ELSE IF w \in { <<"i", "n", "f">>, <<"i", "n", "f", "i", "n", "i", "t", "y">> }
    THEN Return(FSigned(neg, FInf))
    ELSE IF AllDigits(WithoutPoint(w)) /\ Len(w) - Len(WithoutPoint(w)) <= 1
    THEN Return(FSigned(neg, FloatLit(FALSE, DigitsValue(WithoutPoint(w)),
                                      10 ^ FractionDigits(w))))
    ELSE Raise("ValueError", "")

FloatOf(s) == UnsignedFloatOf(IsNegative(s), Lower(Unsigned(s)))

float(raw) == FloatOf(Strip(raw))

\* a < b for two numbers; every comparison with nan is false
PyLess(a, b) == a.kind # "nan" /\ b.kind # "nan" /\ FCmp(a, b) < 0

\* Prompt.ask without a default: the line stripped
PromptAsk(line) == Strip(line)

\* Prompt.ask with a default
PromptAskDefault(line, default) == IF line = <<>> THEN default ELSE Strip(line)

\* the parameter a prompt asks for: its type and the bounds it passes
IntField(min) ==
    [type |-> "int", hasMin |-> TRUE, min |-> PyInt(BigOfInt(min)),
     hasMax |-> FALSE, max |-> FZero]

FloatField(hasMin, min, hasMax, max) ==
    [type |-> "float", hasMin |-> hasMin, min |-> min, hasMax |-> hasMax, max |-> max]

\* the outcomes of one line at a prompt: None is returned, the prompt is
\* repeated after show_error, or the value is returned
Cancel == [kind |-> "cancel", val |-> PyNone]

Retry == [kind |-> "retry", val |-> PyNone]

Value(v) == [kind |-> "value", val |-> v]

\* get_float_input after float(raw), parsed being its outcome
FloatChecked(f, parsed) ==
    IF parsed.tag = "raise" THEN Retry
    ELSE IF f.hasMin /\ PyLess(parsed.val, f.min) THEN Retry
    ELSE IF f.hasMax /\ PyLess(f.max, parsed.val) THEN Retry
    ELSE Value(parsed.val)

\* one pass of the loop of get_float_input, for the line typed
get_float_input(line, f) ==
    IF Lower(Strip(PromptAsk(line))) = <<"q">> THEN Cancel
    ELSE FloatChecked(f, float(PromptAsk(line)))

\* get_int_input after int(raw), parsed being its outcome
IntChecked(f, parsed) ==
    IF parsed.tag = "raise" THEN Retry
    ELSE IF PyLess(parsed.val, f.min) THEN Retry
    ELSE Value(parsed.val)

\* one pass of the loop of get_int_input, for the line typed
get_int_input(line, f) ==
    IF Lower(Strip(PromptAsk(line))) = <<"q">> THEN Cancel
    ELSE IF \E i \in 1..Len(PromptAsk(line)) : PromptAsk(line)[i] = "." THEN Retry
    ELSE IntChecked(f, int(PromptAsk(line)))

\* 0.0001
TenThousandth == FloatLit(FALSE, 1, 10000)

\* the prompts of the collectors, in order
get_binomial_params ==
    << IntField(1), IntField(0), FloatField(TRUE, FZero, TRUE, FOne) >>

get_poisson_params == << FloatField(TRUE, TenThousandth, FALSE, FZero), IntField(0) >>

get_normal_params ==
    << FloatField(FALSE, FZero, FALSE, FZero), FloatField(FALSE, FZero, FALSE, FZero),
       FloatField(TRUE, TenThousandth, FALSE, FZero) >>

get_exponential_params ==
    << FloatField(TRUE, FZero, FALSE, FZero), FloatField(TRUE, TenThousandth, FALSE, FZero) >>

\* (x - mu) / sigma as handle_normal computes it for its formula text
FormulaZ(x, mu, sigma) ==
    IF x.kind = "nan" \/ mu.kind = "nan" \/ sigma.kind = "nan" THEN FNaN
    ELSE FDiv(FSubS(x, mu), sigma)

\* what a handler does: the panel it shows (distribution, parameters, the
\* numbers its formula text computes, the result rendered) and the library
\* calls it makes
Handled(distribution, params, formula, shownResult) ==
    [panel |-> [distribution |-> distribution, params |-> params, formula |-> formula,
                result |-> shownResult],
     calls |-> <<>>]

handle_binomial(params) == Handled("Binomial", params, <<>>, FloatLit(FALSE, 1172, 10000))

handle_poisson(params) == Handled("Poisson", params, <<>>, FloatLit(FALSE, 1804, 10000))

handle_normal(params) ==
    Handled("Normal", params, <<FormulaZ(params[1], params[2], params[3])>>,
            FloatLit(FALSE, 8413, 10000))

handle_exponential(params) ==
    Handled("Exponential", params, <<>>, FloatLit(FALSE, 6321, 10000))

DISTRIBUTION_ROUTER ==
    (<<"1">> :> [get_params |-> get_binomial_params, handler |-> "handle_binomial"]) @@
    (<<"2">> :> [get_params |-> get_poisson_params, handler |-> "handle_poisson"]) @@
    (<<"3">> :> [get_params |-> get_normal_params, handler |-> "handle_normal"]) @@
    (<<"4">> :> [get_params |-> get_exponential_params, handler |-> "handle_exponential"])

MAIN_MENU_OPTIONS == { <<"1">>, <<"2">>, <<"3">>, <<"4">>, <<"0">> }

\* handler(params) for the handler the router names
Handle(handler, params) ==
    IF handler = "handle_binomial" THEN handle_binomial(params)
    ELSE IF handler = "handle_poisson" THEN handle_poisson(params)
    ELSE IF handler = "handle_normal" THEN handle_normal(params)
    ELSE handle_exponential(params)

\* the parameters a collector returned: None, or the values in the order of
\* its prompts
NoParams == [none |-> TRUE, values |-> <<>>]

\* route_selection returns ret: main leaves its loop on False and calls
\* ask_continue on True
Returned(s, ret) ==
    [s EXCEPT !.returned = ret,
              !.pc = IF s.entry = "main"
                     THEN (IF ret = "False" THEN "finally" ELSE "again")
                     ELSE "returned"]

\* route_selection once the collector has returned params
Routed(s, params, done) ==
    IF params.none
    THEN Returned([s EXCEPT !.params = params, !.cancelled = TRUE], "True")
    ELSE Returned([s EXCEPT !.params = params, !.handlers = @ + 1,
                            !.shown = done.panel,
                            !.library = @ \o done.calls], "True")

Collected(s, params) ==
    Routed(s, params, Handle(DISTRIBUTION_ROUTER[s.choice].handler, params.values))

\* the collector after a prompt returned r: None cancels, in
\* get_binomial_params k > n is an error and cancels, the last value
\* completes the parameters
AfterInput(s, r) ==
    IF r.kind = "retry" THEN [s EXCEPT !.errors = @ + 1]
    ELSE IF r.kind = "cancel" THEN Collected(s, NoParams)
    ELSE IF s.choice = <<"1">> /\ s.field = 2 /\ PyLess(s.got[1], r.val)
    THEN Collected([s EXCEPT !.errors = @ + 1], NoParams)
    ELSE IF s.field = Len(DISTRIBUTION_ROUTER[s.choice].get_params)
    THEN Collected(s, [none |-> FALSE, values |-> Append(s.got, r.val)])
    ELSE [s EXCEPT !.got = Append(@, r.val), !.field = @ + 1]

\* the collector at its prompt f, for the line typed
CollectorInput(s, f, line) ==
    AfterInput(s, IF f.type = "int" THEN get_int_input(line, f)
                  ELSE get_float_input(line, f))

\* Mutant of route_selection: a choice outside the router ends the loop
\* like "0".
route_selection_UnknownEndsLoop(s, choice) ==
    IF choice \notin DOMAIN DISTRIBUTION_ROUTER
    THEN Returned([s EXCEPT !.choice = choice], "False")
    ELSE [s EXCEPT !.choice = choice, !.pc = "prompt", !.collectors = @ + 1,
                   !.field = 1]

\* route_selection(choice) up to the first prompt of the collector
route_selection(s, choice) ==
    IF choice = <<"0">> THEN Returned([s EXCEPT !.choice = choice], "False")
    ELSE IF choice \notin DOMAIN DISTRIBUTION_ROUTER
    THEN Returned([s EXCEPT !.choice = choice, !.errors = @ + 1], "True")
    ELSE [s EXCEPT !.choice = choice, !.pc = "prompt", !.collectors = @ + 1,
                   !.field = 1]

\* answer.strip().lower() in ask_continue, for the line typed
Answer(line) == Lower(Strip(PromptAskDefault(line, <<"y">>)))

\* Mutant of ask_continue: every answer but n goes on.
ask_continue_UnlessN(line) == Answer(line) # <<"n">>

ask_continue(line) == Answer(line) = <<"y">>

\* the lines typed at the menu prompt: the options, one of them between
\* blanks, and lines that are no option
OptionLines ==
    { <<"0">>, <<"1">>, <<"2">>, <<"3">>, <<"4">>, <<" ", "1", " ">>, <<"7">>, <<>>,
      <<"q">> }

\* the lines typed at the prompts of the collectors: q, no number, and
\* numbers on both sides of every bound
ValueLines ==
    { <<"q">>, <<" ", "Q">>, <<>>, <<"a", "b", "c">>, <<"-", "1">>, <<"0">>, <<"1">>,
      <<"2">>, <<"2", ".", "0">>, <<"0", ".", "5">>, <<"n", "a", "n">>,
      <<"0", ".", "0", "0", "0", "1">> }

\* the lines typed at the prompt of ask_continue
AnswerLines == { <<"y">>, <<" ", "Y", " ">>, <<>>, <<"n">>, <<"q">> }

\* the choices route_selection is called with directly
DirectChoices == MAIN_MENU_OPTIONS \cup { <<"7">>, <<>> }

\* the loop of main starts an iteration and reaches the menu prompt
Iteration == [NoSession EXCEPT !.pc = "menu", !.entry = "main"]

StartMain ==
    /\ session.pc = "off"
    /\ session' = Iteration
    /\ UNCHANGED <<call, result, evaluated, SCIPY_AVAILABLE, frames, locals>>

\* route_selection called on its own
CallRouteSelection(choice) ==
    /\ session.pc = "off"
    /\ session' = route_selection([NoSession EXCEPT !.entry = "route_selection"], choice)
    /\ UNCHANGED <<call, result, evaluated, SCIPY_AVAILABLE, frames, locals>>

\* a line at the menu prompt: Prompt.ask asks again unless it is one of the
\* options, and main calls route_selection with the option
EnterOption(line) ==
    /\ session.pc = "menu"
    /\ session' = IF PromptAsk(line) \in MAIN_MENU_OPTIONS
                  THEN route_selection(session, PromptAsk(line))
                  ELSE session
    /\ UNCHANGED <<call, result, evaluated, SCIPY_AVAILABLE, frames, locals>>

\* Bound of the calls of show_error explored within one calculation.
MaxErrors == 1

\* the session becomes next, within the bound
Within(next) == next.errors <= MaxErrors /\ session' = next

\* a line at a prompt of the collector
EnterValue(line) ==
    /\ session.pc = "prompt"
    /\ Within(CollectorInput(session,
                             DISTRIBUTION_ROUTER[session.choice].get_params[session.field],
                             line))
    /\ UNCHANGED <<call, result, evaluated, SCIPY_AVAILABLE, frames, locals>>

\* a line at the prompt of ask_continue: the loop goes on or ends
AnswerAgain(line) ==
    /\ session.pc = "again"
    /\ session' = IF ask_continue(line)
                  THEN [Iteration EXCEPT !.again = "True", !.answer = Answer(line)]
                  ELSE [session EXCEPT !.again = "False", !.answer = Answer(line),
                                       !.pc = "finally"]
    /\ UNCHANGED <<call, result, evaluated, SCIPY_AVAILABLE, frames, locals>>

\* Ctrl+C at a prompt: main catches KeyboardInterrupt and goes to its finally
\* block; a direct call of route_selection ends with the exception
Interrupt ==
    /\ session.pc \in {"menu", "prompt", "again"}
    /\ session' = [session EXCEPT !.interrupted = TRUE,
                                  !.pc = IF session.entry = "main" THEN "finally"
                                         ELSE "raised"]
    /\ UNCHANGED <<call, result, evaluated, SCIPY_AVAILABLE, frames, locals>>

\* the finally block of main: the farewell is printed and sys.exit(0) called
Farewell ==
    /\ session.pc = "finally"
    /\ session' = [session EXCEPT !.farewells = @ + 1, !.status = 0, !.pc = "exited"]
    /\ UNCHANGED <<call, result, evaluated, SCIPY_AVAILABLE, frames, locals>>

NextMain ==
    \/ StartMain
    \/ \E choice \in DirectChoices : CallRouteSelection(choice)
    \/ \E line \in OptionLines : EnterOption(line)
    \/ \E line \in ValueLines : EnterValue(line)
    \/ \E line \in AnswerLines : AnswerAgain(line)
    \/ Interrupt
    \/ Farewell

SpecMain == Init /\ [][NextMain]_vars

\* the finally block of main runs without waiting for anything
SpecMainFair == SpecMain /\ WF_vars(Farewell)

(***************************************************************************)
(* Vocabulary of the properties.                                           *)
(***************************************************************************)
IsValueError(r) == r.tag = "raise" /\ r.exc = "ValueError"

\* r is a returned float in [0, 1]
ReturnsProbability(r) ==
    /\ r.tag = "return"
    /\ r.val.kind = "float"
    /\ IsFinite(r.val)
    /\ InClosedUnit(r.val)

\* 0 < p < 1
InOpenUnit(p) == FCmp(FZero, p) < 0 /\ FCmp(p, FOne) < 0

BigAbsDiff(u, v) == IF BigCmp(u, v) >= 0 THEN BigSub(u, v) ELSE BigSub(v, u)

\* |x - a/b| <= t/b for a finite float x >= 0 and naturals a, t, b
RatNear(x, a, t, b) ==
    LET sh == IF x.e >= 0 THEN 0 ELSE -x.e
        X  == IF x.e >= 0 THEN BigShl(x.m, x.e) ELSE x.m
    IN  BigCmp(BigAbsDiff(BigMul(X, b), BigShl(a, sh)), BigShl(t, sh)) <= 0

Billion == BigOfInt(10 ^ 9)

\* |x - 1| <= 1e-9
NearOne(x) == RatNear(x, Billion, <<1>>, Billion)

\* |x - Em * 2^Ee| <= 1e-9 for a finite float x >= 0 (exact arithmetic)
ExactNear(x, Em, Ee) ==
    LET e0 == IF x.e <= Ee THEN x.e ELSE Ee
        D  == BigAbsDiff(BigShl(x.m, x.e - e0), BigShl(Em, Ee - e0))
    IN  IF e0 >= 0 THEN D = <<>>
        ELSE BigCmp(BigMul(D, Billion), BigShl(<<1>>, -e0)) <= 0

\* the mantissa, at exponent p.e * n, of the exact real number
\* choose(n,k) * p^k * (1-p)^(n-k), for a float 0 < p < 1 (so p.e < 0)
ExactPmfMantissa(n, k, p) ==
    BigMul(BigMul(MathComb(n, k), BigPow(p.m, k)),
           BigPow(BigSub(BigShl(<<1>>, -p.e), p.m), n - k))

RECURSIVE PmfSum(_, _, _)
\* binomial(n,0,p) + binomial(n,1,p) + ... + binomial(n,j,p), added in this
\* order in float arithmetic; the first exception, if one is raised
PmfSum(n, p, j) ==
    IF j = 0 THEN binomial(n, 0, p)
    ELSE LET before == PmfSum(n, p, j - 1)
             term   == binomial(n, j, p)
         IN  IF before.tag = "raise" THEN before
             ELSE IF term.tag = "raise" THEN term
             ELSE Return(FAdd(before.val, term.val))

RECURSIVE NatProduct(_, _)
\* lo * (lo + 1) * ... * hi, the empty product being 1
NatProduct(lo, hi) ==
    IF lo > hi THEN <<1>>
    ELSE IF lo = hi THEN BigOfInt(lo)
    ELSE BigMul(NatProduct(lo, (lo + hi) \div 2),
                NatProduct(((lo + hi) \div 2) + 1, hi))

\* n!
NatFactorial(n) == NatProduct(1, n)

Min(a, b) == IF a <= b THEN a ELSE b

(***************************************************************************)
(* C1.  For every n >= 1 and p in [0,1], binomial tells an error from a    *)
(* defined zero: every k < 0 raises ValueError (the DomainError), every    *)
(* k > n returns exactly 0.0 and raises nothing.                           *)
(***************************************************************************)
C1_ErrorVersusDefinedZero ==
    (call.fn = "binomial" /\ call.n >= 1 /\ InClosedUnit(call.p)) =>
        /\ call.k < 0 => result = Raise("ValueError", "k")
        /\ call.k > call.n => result = Return(FZero)

C1_Witness ==
    /\ call.fn = "binomial" /\ call.n >= 1 /\ InClosedUnit(call.p)
    /\ call.k > call.n
    /\ result = Return(FZero)

(***************************************************************************)
(* C2.  binomial raises ValueError whenever n < 1 or p is outside [0,1],   *)
(* for every k >= 0, the case k > n included.                              *)
(***************************************************************************)
C2_ValidatesNAndP ==
    (call.fn = "binomial" /\ call.k >= 0
        /\ (call.n < 1 \/ ~InClosedUnit(call.p))) => IsValueError(result)

(***************************************************************************)
(* C3.  For every valid input (n >= 1, k >= 0, 0 <= p <= 1) binomial       *)
(* returns a value in [0,1]; for 0 <= k <= n and 0 < p < 1 the value is    *)
(* choose(n,k) * p^k * (1-p)^(n-k) (up to floating error, 1e-9); and       *)
(* binomial(10, 3, 0.5) is 120/1024, which is 0.1172 within 1e-4.          *)
(***************************************************************************)
C3_PmfValue ==
    (call.fn = "binomial" /\ call.n >= 1 /\ call.k >= 0 /\ InClosedUnit(call.p)) =>
        /\ ReturnsProbability(result)
        /\ (call.k <= call.n /\ InOpenUnit(call.p)) =>
              ExactNear(result.val, ExactPmfMantissa(call.n, call.k, call.p),
                        call.p.e * call.n)
        /\ (call.n = 10 /\ call.k = 3 /\ call.p = Half) =>
              /\ result.val = FloatLit(FALSE, 120, 1024)
              /\ RatNear(result.val, BigOfInt(1172), <<1>>, BigOfInt(10000))

(***************************************************************************)
(* C4.  The boundary special cases: for every n >= 1 and k in 0..n,        *)
(* binomial(n,k,0.0) is 1.0 if and only if k = 0 (else 0.0), and           *)
(* binomial(n,k,1.0) is 1.0 if and only if k = n (else 0.0).               *)
(***************************************************************************)
C4_BoundarySpecialCases ==
    (call.fn = "binomial" /\ call.n >= 1 /\ call.k >= 0 /\ call.k <= call.n) =>
        /\ call.p = FZero => result = Return(IF call.k = 0 THEN FOne ELSE FZero)
        /\ call.p = FOne => result = Return(IF call.k = call.n THEN FOne ELSE FZero)

C4_Witness ==
    /\ call.fn = "binomial" /\ call.n >= 2 /\ call.k = call.n
    /\ call.p = FOne
    /\ result = Return(FOne)

(***************************************************************************)
(* C5.  For every valid (n,p), n >= 1 and 0 <= p <= 1, the values          *)
(* binomial(n,k,p) for k = 0..n sum to 1 within 1e-9: every term is a      *)
(* value, and their sum is within 1e-9 of 1.                               *)
(***************************************************************************)
C5_PmfSumsToOne ==
    (call.fn = "binomial" /\ call.n >= 1 /\ InClosedUnit(call.p)
        /\ call.k >= 0 /\ call.k <= call.n) =>
        /\ result.tag = "return"
        /\ call.k = call.n =>
              /\ PmfSum(call.n, call.p, call.n).tag = "return"
              /\ NearOne(PmfSum(call.n, call.p, call.n).val)

(***************************************************************************)
(* C6.  binomial_cumulative(n,k,p) is the ascending sum of binomial(n,i,p) *)
(* for i = 0..min(k,n), for every valid n, p and k >= 0, and it returns    *)
(* 0.0 for every k < 0; binomial_cumulative(10,3,0.5) is 176/1024, which   *)
(* is 0.1719 within 1e-4.                                                  *)
(***************************************************************************)
C6_CumulativeIsAscendingSum ==
    call.fn = "binomial_cumulative" =>
        /\ call.k < 0 => result = Return(FZero)
        /\ (call.k >= 0 /\ call.n >= 1 /\ InClosedUnit(call.p)) =>
              result = PmfSum(call.n, call.p, Min(call.k, call.n))
        /\ (call.n = 10 /\ call.k = 3 /\ call.p = Half) =>
              /\ result = Return(FloatLit(FALSE, 176, 1024))
              /\ RatNear(result.val, BigOfInt(1719), <<1>>, BigOfInt(10000))

C6_Witness ==
    /\ call.fn = "binomial_cumulative"
    /\ call.n = 3 /\ call.k = 2 /\ call.p = FloatLit(FALSE, 3, 10)
    /\ result.tag = "return"
    /\ evaluated = <<0, 1, 2>>

(***************************************************************************)
(* C7.  For every valid n >= 1 and 0 <= p <= 1, binomial_cumulative(n,n,p) *)
(* is 1.0, and k is clamped to n: for k >= n the outcome is that of k = n, *)
(* and binomial(n,i,p) is evaluated for no i > n.                          *)
(***************************************************************************)
C7_CumulativeAtNIsOne ==
    (call.fn = "binomial_cumulative" /\ call.n >= 1 /\ InClosedUnit(call.p)
        /\ call.k >= call.n) =>
        /\ result = Return(FOne)
        /\ result = binomial_cumulative(call.n, call.n, call.p)
        /\ \A j \in 1..Len(evaluated) : evaluated[j] <= call.n

(***************************************************************************)
(* C8.  For every valid n >= 1 and 0 <= p <= 1, binomial_cumulative(n,k,p) *)
(* lies in [0,1] for every integer k and does not decrease in k.           *)
(***************************************************************************)
C8_CumulativeIsProbability ==
    (call.fn = "binomial_cumulative" /\ call.n >= 1 /\ InClosedUnit(call.p)) =>
        /\ ReturnsProbability(result)
        /\ LET next == binomial_cumulative(call.n, call.k + 1, call.p)
           IN  next.tag = "return" /\ FCmp(result.val, next.val) <= 0

(***************************************************************************)
(* C9.  binomial_cumulative never accepts invalid distribution parameters  *)
(* silently: for every k >= 0 it raises ValueError whenever n < 1          *)
(* (negative n included) or p is outside [0,1].                            *)
(***************************************************************************)
C9_CumulativeValidates ==
    (call.fn = "binomial_cumulative" /\ call.k >= 0
        /\ (call.n < 1 \/ ~InClosedUnit(call.p))) => IsValueError(result)

(***************************************************************************)
(* C10.  The combinatorics helpers reject exactly their invalid domains    *)
(* and are exact otherwise: factorial(n) raises ValueError iff n < 0 and   *)
(* returns n! (0! = 1) otherwise; combinations(n,k) raises ValueError iff  *)
(* n < 0, k < 0 or k > n, and otherwise returns the integer                *)
(* n!/(k!(n-k)!), with choose(n,0) = choose(n,n) = 1 and                   *)
(* choose(n,k) = choose(n,n-k).                                            *)
(***************************************************************************)
C10_CombinatoricsHelpers ==
    /\ call.fn = "factorial" =>
          IF call.n < 0 THEN IsValueError(result)
          ELSE result = Return(PyInt(NatFactorial(call.n)))
    /\ call.fn = "combinations" =>
          IF call.n < 0 \/ call.k < 0 \/ call.k > call.n
          THEN IsValueError(result)
          ELSE /\ result.tag = "return" /\ result.val.kind = "int"
               /\ BigMul(BigMul(result.val.m, NatFactorial(call.k)),
                         NatFactorial(call.n - call.k)) = NatFactorial(call.n)
               /\ (call.k = 0 \/ call.k = call.n) => result.val.m = <<1>>
               /\ result = combinations(call.n, call.n - call.k)

C10_Witness ==
    /\ call.fn = "combinations" /\ call.n = 6 /\ call.k = 2
    /\ result = Return(PyInt(<<15>>))

(***************************************************************************)
(* Vocabulary of the Poisson properties.                                   *)
(***************************************************************************)
\* lambda > 0
ValidRate(lam) == FCmp(PyInt(<<>>), lam) < 0

\* e^-lam in fixed point, for a float lam > 0
ExpNegFx(lam) ==
    LET d == BigDivMod(FxOfFloat(lam), Ln2Fx)
    IN  BigShr(FxExpNeg(d.r), BigToInt(d.q))

\* lam^k in fixed point (truncated), for a float lam > 0
PowFx(lam, k) ==
    LET o  == OddPart(lam.m, lam.e)
        sh == o.e * k + FxBits
    IN  IF sh >= 0 THEN BigShl(BigPow(o.m, k), sh)
        ELSE BigShr(BigPow(o.m, k), -sh)

\* |x - lam^k e^-lam / k!| <= 1e-9 for a finite float x >= 0, compared after
\* multiplying through by k! and 10^9
PoissonNear(x, lam, k) ==
    BigCmp(BigMul(BigAbsDiff(BigMul(FxOfFloat(x), NatFactorial(k)),
                             FxMul(PowFx(lam, k), ExpNegFx(lam))), Billion),
           BigMul(FxOne, NatFactorial(k))) <= 0

RECURSIVE PoissonSum(_, _)
\* poisson(lam,0) + poisson(lam,1) + ... + poisson(lam,j), added in this
\* order in float arithmetic; the first exception, if one is raised
PoissonSum(lam, j) ==
    IF j = 0 THEN poisson(lam, 0)
    ELSE LET before == PoissonSum(lam, j - 1)
             term   == poisson(lam, j)
         IN  IF before.tag = "raise" THEN before
             ELSE IF term.tag = "raise" THEN term
             ELSE Return(FAdd(before.val, term.val))

(***************************************************************************)
(* C11.  poisson validates before it short-circuits: it raises ValueError  *)
(* whenever lambda <= 0 or k < 0, also when k > 1000; for valid            *)
(* lambda < 10 and k > 1000 it returns exactly 0.0 and calls no factorial; *)
(* otherwise it returns lambda^k * e^-lambda / k! (within 1e-9).           *)
(***************************************************************************)
C11_PoissonValidatesThenComputes ==
    call.fn = "poisson" =>
        /\ (~ValidRate(call.lam) \/ call.k < 0) => IsValueError(result)
        /\ (ValidRate(call.lam) /\ call.k > 1000
                /\ FCmp(call.lam, PyInt(<<10>>)) < 0) =>
              result = Return(FZero) /\ evaluated = <<>>
        /\ (ValidRate(call.lam) /\ call.k >= 0
                /\ ~(call.k > 1000 /\ FCmp(call.lam, PyInt(<<10>>)) < 0)) =>
              /\ result.tag = "return"
              /\ PoissonNear(result.val, call.lam, call.k)

(***************************************************************************)
(* C12.  For every lambda > 0 and every integer k >= 0 poisson returns a   *)
(* real in [0,1]; it raises no overflow error when lambda^k or k! exceeds  *)
(* the float range (170 < k <= 1000, or k > 1000 with lambda >= 10).       *)
(***************************************************************************)
C12_PoissonReturnsProbability ==
    (call.fn = "poisson" /\ ValidRate(call.lam) /\ call.k >= 0) =>
        ReturnsProbability(result)

(***************************************************************************)
(* C13.  For every lambda > 0 the partial sums poisson_cumulative(lambda,K)*)
(* are strictly increasing in K, for every K >= 0, and at most 1.          *)
(***************************************************************************)
C13_PoissonPartialSums ==
    (call.fn = "poisson_cumulative" /\ ValidRate(call.lam) /\ call.k >= 0) =>
        /\ result.tag = "return"
        /\ FCmp(result.val, FOne) <= 0
        /\ LET next == poisson_cumulative(call.lam, call.k + 1)
           IN  next.tag = "return" /\ FCmp(result.val, next.val) < 0

(***************************************************************************)
(* C14.  poisson_cumulative(lambda,k) is the ascending sum of              *)
(* poisson(lambda,i) for i = 0..k when k >= 0 and 0.0 when k < 0; it       *)
(* raises ValueError whenever lambda <= 0, for every k, k < 0 included;    *)
(* poisson_cumulative(4.0, 3) is 0.4335 within 1e-4.                       *)
(***************************************************************************)
C14_PoissonCumulative ==
    call.fn = "poisson_cumulative" =>
        /\ ~ValidRate(call.lam) => IsValueError(result)
        /\ (ValidRate(call.lam) /\ call.k < 0) => result = Return(FZero)
        /\ (ValidRate(call.lam) /\ call.k >= 0) =>
              result = PoissonSum(call.lam, call.k)
        /\ (call.lam = Four /\ call.k = 3) =>
              RatNear(result.val, BigOfInt(4335), <<1>>, BigOfInt(10000))

(***************************************************************************)
(* The continuous distributions.                                           *)
(***************************************************************************)
\* sigma > 0, resp. lambda > 0
Positive(v) == FCmp(v, FZero) > 0

\* |x - y| <= 1e-6 for finite floats x, y >= 0 (exact arithmetic)
WithinMillionth(x, y) ==
    LET e0 == FMinExp(x, y)
        D  == BigAbsDiff(FAlign(x, e0), FAlign(y, e0))
    IN  IF e0 >= 0 THEN D = <<>>
        ELSE BigCmp(BigMul(D, BigOfInt(10 ^ 6)), BigShl(<<1>>, -e0)) <= 0

\* C15. normal_pdf, normal_cdf and z_score raise ValueError for every
\* sigma <= 0 (sigma = 0 included), whatever x and mu; for sigma > 0 none of
\* them raises, z_score returns (x - mu) / sigma and normal_cdf returns the
\* standard normal CDF of z_score(x, mu, sigma).
C15_NormalDomainAndStandardisation ==
    call.fn \in {"normal_pdf", "normal_cdf", "z_score"} =>
        IF ~Positive(call.sigma) THEN IsValueError(result)
        ELSE /\ result.tag = "return"
             /\ call.fn = "z_score" =>
                    result.val = FDiv(FSubS(call.x, call.mu), call.sigma)
             /\ call.fn = "normal_cdf" =>
                    result.val = standard_normal_cdf(
                                     z_score(call.x, call.mu, call.sigma).val)

\* C16. For every mu and every sigma > 0, normal_cdf(mu, mu, sigma) returns
\* exactly 0.5.
C16_CdfAtMeanIsHalf ==
    (call.fn = "normal_cdf" /\ call.x = call.mu /\ Positive(call.sigma)) =>
        result = Return(Half)

C16_Witness ==
    /\ call.fn = "normal_cdf"
    /\ call.x = Three /\ call.mu = Three /\ call.sigma = Two
    /\ result = Return(Half)

ValidPpfCall ==
    call.fn = "normal_ppf" /\ InOpenUnit(call.p) /\ Positive(call.sigma)

RoundTripHolds ==
    /\ result.tag = "return"
    /\ result.val.kind = "float"
    /\ LET back == normal_cdf(result.val, call.mu, call.sigma)
       IN  back.tag = "return" /\ WithinMillionth(back.val, call.p)

\* 2^-300 <= sigma < 2^300 and |mu| <= 2^20 sigma
ModerateParameters ==
    /\ FloorLog2(call.sigma) >= -300
    /\ FloorLog2(call.sigma) < 300
    /\ FCmpAbs(call.mu, PyFloat(FALSE, call.sigma.m, call.sigma.e + 20)) <= 0

C19_ConfidenceInterval ==
    call.fn = "normal_interval" =>
        IF ~InOpenUnit(call.confidence)
        THEN IsValueError(result) /\ result.param = "confidence"
        ELSE IF ~Positive(call.sigma) THEN IsValueError(result)
        ELSE LET alpha == IntervalAlpha(call.confidence)
                 lower == normal_ppf(alpha, call.mu, call.sigma,
                                     SCIPY_AVAILABLE)
                 upper == normal_ppf(FSubS(FOne, alpha), call.mu, call.sigma,
                                     SCIPY_AVAILABLE)
             IN  /\ FCmp(FZero, alpha) < 0 /\ FCmp(alpha, Half) < 0
                 /\ lower.tag = "return" /\ upper.tag = "return"
                 /\ result = ReturnPair(lower.val, upper.val)
                 /\ FCmp(lower.val, upper.val) <= 0

ExponentialFunctions ==
    { "exponential_pdf", "exponential_cdf", "exponential_ppf",
      "exponential_mean", "exponential_variance", "exponential_std" }

\* C20. Every exponential function (pdf, cdf, ppf, mean, variance, std)
\* raises ValueError whenever lambda <= 0, whatever its other argument, for
\* pdf and cdf also when x < 0; exponential_ppf raises ValueError as well
\* whenever p is not strictly inside (0, 1).
C20_ExponentialValidates ==
    call.fn \in ExponentialFunctions =>
        /\ ~Positive(call.lam) => IsValueError(result)
        /\ (call.fn = "exponential_ppf" /\ ~InOpenUnit(call.p)) =>
               IsValueError(result)

C20_Witness ==
    /\ call.fn = "exponential_cdf"
    /\ call.x = MinusOne /\ call.lam = MinusOne
    /\ IsValueError(result) /\ result.param = "lam"

\* e^-(lam x) in fixed point for floats lam > 0 and x >= 0; from lam x = 2^11
\* on it is below 2^-FxBits
ExpNegProductFx(lam, x) ==
    IF x.m = <<>> THEN FxOne
    ELSE IF FloorLog2(lam) + FloorLog2(x) >= 11 THEN <<>>
    ELSE LET d == BigDivMod(FxMul(FxOfFloat(lam), FxOfFloat(x)), Ln2Fx)
         IN  BigShr(FxExpNeg(d.r), BigToInt(d.q))

\* |v - a / 2^FxBits| <= 1e-9 for a finite float v >= 0 and a in fixed point
FxNear(v, a) == BigCmp(BigMul(BigAbsDiff(FxOfFloat(v), a), Billion), FxOne) <= 0

\* C21. For every lambda > 0: exponential_pdf and exponential_cdf return
\* 0.0 for x < 0; at x = 0 the cdf is 0.0 and the pdf is lambda; for x >= 0
\* the pdf is lambda e^(-lambda x) (within 1e-9) and not negative, the cdf is
\* 1 - e^(-lambda x) (within 1e-9) and in [0, 1].
C21_ExponentialValues ==
    (call.fn \in {"exponential_pdf", "exponential_cdf"} /\ Positive(call.lam)) =>
        /\ result.tag = "return" /\ result.val.kind = "float" /\ IsFinite(result.val)
        /\ FCmp(call.x, FZero) < 0 => result.val = FZero
        /\ FCmp(call.x, FZero) = 0 =>
               FCmp(result.val, IF call.fn = "exponential_pdf" THEN call.lam ELSE FZero) = 0
        /\ (FCmp(call.x, FZero) >= 0 /\ call.fn = "exponential_pdf") =>
               /\ FCmp(result.val, FZero) >= 0
               /\ FxNear(result.val,
                         FxMul(FxOfFloat(call.lam), ExpNegProductFx(call.lam, call.x)))
        /\ (FCmp(call.x, FZero) >= 0 /\ call.fn = "exponential_cdf") =>
               /\ InClosedUnit(result.val)
               /\ FxNear(result.val, BigSub(FxOne, ExpNegProductFx(call.lam, call.x)))

C21_Witness ==
    /\ call.fn = "exponential_pdf"
    /\ call.lam = Two /\ call.x = Half
    /\ result.tag = "return" /\ Positive(result.val)

ValidExponentialPpfCall ==
    call.fn = "exponential_ppf" /\ InOpenUnit(call.p) /\ Positive(call.lam)

\* back, the outcome of exponential_cdf, is a value within 1e-9 of p
BackAtP(back) ==
    /\ back.tag = "return" /\ IsFinite(back.val)
    /\ ExactNear(back.val, call.p.m, call.p.e)

\* the call's result is not negative, and exponential_cdf(result, lam) is
\* within 1e-9 of p
ExponentialRoundTrip ==
    /\ result.tag = "return" /\ result.val.kind = "float"
    /\ FCmp(result.val, FZero) >= 0
    /\ BackAtP(exponential_cdf(result.val, call.lam))

\* C22. For every p in (0, 1) and every lambda > 0, exponential_ppf(p, lambda)
\* is not negative and exponential_cdf(exponential_ppf(p, lambda), lambda)
\* equals p (up to floating error, taken as 1e-9).
C22_RoundTrip == ValidExponentialPpfCall => ExponentialRoundTrip

\* C22, amended. For every p in (0, 1) and every lambda >= 2^-1000,
\* exponential_ppf(p, lambda) is a finite float, not negative, and
\* exponential_cdf(exponential_ppf(p, lambda), lambda) equals p within 1e-9;
\* when -ln(1 - p) / lambda exceeds the largest float, exponential_ppf
\* returns inf and exponential_cdf of it is 1.0.
C22_RoundTripFinite ==
    ValidExponentialPpfCall =>
        /\ result.tag = "return" /\ result.val.kind = "float"
        /\ FloorLog2(call.lam) >= -1000 =>
               IsFinite(result.val) /\ ExponentialRoundTrip
        /\ ~IsFinite(result.val) =>
               exponential_cdf(result.val, call.lam) = Return(FOne)

C22_Witness ==
    /\ ValidExponentialPpfCall
    /\ call.p = Half /\ call.lam = Two
    /\ Positive(result.val) /\ IsFinite(result.val)
    /\ ExponentialRoundTrip

\* v * lam^n is within 1e-9 of 1, for a returned float v
InverseOfPower(r, lam, n) ==
    /\ r.tag = "return" /\ r.val.kind = "float" /\ IsFinite(r.val)
    /\ LET product == IF n = 1 THEN FMul(r.val, lam) ELSE FMul(FMul(r.val, lam), lam)
       IN  IsFinite(product) /\ NearOne(product)

\* C23. For every lambda > 0, exponential_mean returns 1 / lambda,
\* exponential_std returns 1 / lambda, the same float as the mean, and
\* exponential_variance returns 1 / lambda^2, the square of the std.
C23_ExponentialMoments ==
    Positive(call.lam) =>
        /\ call.fn \in {"exponential_mean", "exponential_std"} =>
               /\ InverseOfPower(result, call.lam, 1)
               /\ result = exponential_mean(call.lam)
               /\ result = exponential_std(call.lam)
        /\ call.fn = "exponential_variance" =>
               /\ InverseOfPower(result, call.lam, 2)
               /\ LET std == exponential_std(call.lam)
                  IN  std.tag = "return"
                          /\ ExactNear(result.val, BigMul(std.val.m, std.val.m), 2 * std.val.e)

MomentFunctions == { "binomial_mean", "binomial_variance", "binomial_std" }

\* the exact real n p (1 - p) is |n| |p| |1 - p| = VarianceMantissa * 2^(2 p.e),
\* for a float p with p.e <= 0
VarianceMantissa(n, p) ==
    BigMul(BigMul(n.m, p.m),
           IF p.neg THEN BigAdd(BigShl(<<1>>, -p.e), p.m)
           ELSE BigAbsDiff(BigShl(<<1>>, -p.e), p.m))

\* n p (1 - p) < 0
VarianceNegative(n, p) ==
    /\ VarianceMantissa(n, p) # <<>>
    /\ (n.neg # p.neg) # (FCmp(p, FOne) > 0)

\* the int n is at least 2^1024 in magnitude
TooLarge(n) == BigBitLen(n.m) > MaxBits

\* r returns the moment that fn names (within 1e-9), with its sign
MomentValue(fn, n, p, r) ==
    /\ r.tag = "return" /\ r.val.kind = "float" /\ IsFinite(r.val)
    /\ fn = "binomial_mean" =>
           /\ ExactNear(FSigned(FALSE, r.val), BigMul(n.m, p.m), p.e)
           /\ r.val.m # <<>> => r.val.neg = (n.neg # p.neg)
    /\ fn = "binomial_variance" =>
           /\ ExactNear(FSigned(FALSE, r.val), VarianceMantissa(n, p), 2 * p.e)
           /\ r.val.m # <<>> => r.val.neg = VarianceNegative(n, p)
    /\ fn = "binomial_std" =>
           ExactNear(PyFloat(FALSE, BigMul(r.val.m, r.val.m), 2 * r.val.e),
                     VarianceMantissa(n, p), 2 * p.e)

C30_PpfCheckOrder ==
    call.fn = "normal_ppf" =>
        /\ ~InOpenUnit(call.p) => IsValueError(result) /\ result.param = "p"
        /\ (InOpenUnit(call.p) /\ ~Positive(call.sigma)) =>
               IsValueError(result) /\ result.param = "sigma"
        /\ (result.tag = "raise" /\ result.exc = "ImportError") =>
               InOpenUnit(call.p) /\ Positive(call.sigma) /\ ~SCIPY_AVAILABLE
        /\ (InOpenUnit(call.p) /\ Positive(call.sigma) /\ ~SCIPY_AVAILABLE) =>
               result = Raise("ImportError", "")

C30_Witness ==
    /\ call.fn = "normal_ppf"
    /\ ~InOpenUnit(call.p) /\ ~Positive(call.sigma) /\ ~SCIPY_AVAILABLE
    /\ IsValueError(result) /\ result.param = "p"

\* the outcome of the call in frame f when it runs alone
AloneOutcome(f) ==
    IF f.fn = "binomial_cumulative" THEN binomial_cumulative(f.n, f.k, f.p)
    ELSE normal_ppf(f.p, f.mu, f.sigma, SCIPY_AVAILABLE)

LibraryOutcome(choice, v) ==
    IF choice = <<"1">> THEN binomial(BigToInt(v[1].m), BigToInt(v[2].m), v[3])
    ELSE IF choice = <<"2">> THEN poisson(v[1], BigToInt(v[2].m))
    ELSE IF choice = <<"3">> THEN normal_cdf(v[1], v[2], v[3])
    ELSE exponential_cdf(v[1], v[2])

NoNaN(v) == \A i \in 1..Len(v) : v[i].kind # "nan"

\* C26. Whenever a handler has run, the presentation layer has called exactly
\* one library function with the parameters collected, and the result the
\* panel renders is the value that function returned.
C26_HandlerRendersLibraryValue ==
    (session.handlers > 0 /\ NoNaN(session.params.values)) =>
        /\ Len(session.library) = 1
        /\ LibraryOutcome(session.choice, session.params.values)
               = Return(session.shown.result)

\* a >= b, which no nan satisfies
AtLeast(a, b) == a.kind # "nan" /\ b.kind # "nan" /\ FCmp(a, b) >= 0

\* the preconditions of the library function of a distribution
Preconditions(choice, v) ==
    IF choice = <<"1">>
    THEN /\ AtLeast(v[1], PyInt(<<1>>)) /\ AtLeast(v[2], PyInt(<<>>))
         /\ AtLeast(v[1], v[2])
         /\ AtLeast(v[3], FZero) /\ AtLeast(FOne, v[3])
    ELSE IF choice = <<"2">>
    THEN AtLeast(v[1], TenThousandth) /\ AtLeast(v[2], PyInt(<<>>))
    ELSE IF choice = <<"3">> THEN AtLeast(v[3], TenThousandth)
    ELSE AtLeast(v[1], FZero) /\ AtLeast(v[2], TenThousandth)

\* the line is q between blanks, in either case
TypedQ(line) == Lower(Strip(line)) = <<"q">>

\* the line is a k above the n entered, at the k prompt of the binomial
\* collector
KAboveN(line) ==
    /\ session.choice = <<"1">> /\ session.field = 2
    /\ int(line).tag = "return" /\ PyLess(session.got[1], int(line).val)

\* C27. The parameters a collector returns (not None) satisfy the
\* preconditions of the library function of its distribution: n >= 1,
\* 0 <= k <= n and 0 <= p <= 1 for the binomial, lambda >= 0.0001 and
\* k >= 0 for the Poisson, sigma >= 0.0001 for the normal, x >= 0 and
\* lambda >= 0.0001 for the exponential; so the library raises no
\* ValueError on them.  A collector returns None exactly when the user
\* typed q at one of its prompts or, for the binomial, entered k > n.
C27_CollectorsValidate ==
    /\ [](~session.params.none =>
              /\ Preconditions(session.choice, session.params.values)
              /\ NoNaN(session.params.values) =>
                     ~IsValueError(LibraryOutcome(session.choice,
                                                  session.params.values)))
    /\ [][\A line \in ValueLines :
              EnterValue(line) =>
                  (session'.cancelled <=> (TypedQ(line) \/ KAboveN(line)))]_vars

\* C28. route_selection returns False if and only if choice is "0".  For a
\* choice that is not in the router it shows an error, calls no collector
\* and no handler, and returns True.  For a choice in the router it calls
\* the collector exactly once, and the handler of the same distribution
\* exactly once if the collector returned parameters and not at all if it
\* returned None, and returns True.
C28_RouteSelection ==
    /\ session.pc = "prompt" =>
           /\ session.choice \in DOMAIN DISTRIBUTION_ROUTER
           /\ session.collectors = 1 /\ session.handlers = 0
    /\ session.returned # "none" =>
           /\ session.returned = "False" <=> session.choice = <<"0">>
           /\ session.choice \notin DOMAIN DISTRIBUTION_ROUTER =>
                  /\ session.collectors = 0 /\ session.handlers = 0
                  /\ session.shown.distribution = ""
                  /\ session.choice # <<"0">> =>
                         session.errors = 1 /\ session.returned = "True"
           /\ session.choice \in DOMAIN DISTRIBUTION_ROUTER =>
                  /\ session.returned = "True"
                  /\ session.collectors = 1
                  /\ session.handlers = IF session.params.none THEN 0 ELSE 1
                  /\ ~session.params.none =>
                         session.shown =
                             Handle(DISTRIBUTION_ROUTER[session.choice].handler,
                                    session.params.values).panel

C28_Witness ==
    /\ session.entry = "route_selection" /\ session.pc = "returned"
    /\ session.choice = <<"3">>
    /\ session.collectors = 1 /\ session.handlers = 1
    /\ session.returned = "True" /\ session.shown.distribution = "Normal"

\* C29. The loop of main starts another iteration only after
\* route_selection returned True and ask_continue returned True, its
\* answer stripped and in lower case being y; ask_continue is not called
\* after option "0".  On every way out (option "0", an answer other than
\* y, KeyboardInterrupt at any prompt) main goes to its finally block, and
\* from there the farewell is printed exactly once and the process exits
\* with status 0.
C29_MainLoopAndExit ==
    /\ [][(session'.pc = "menu" /\ session.pc \notin {"menu", "off"}) =>
              /\ session.pc = "again" /\ session.returned = "True"
              /\ session'.answer = <<"y">>]_vars
    /\ [](session.pc = "again" =>
              session.returned = "True" /\ session.choice # <<"0">>)
    /\ [](session.again = "False" => session.answer # <<"y">>)
    /\ []((/\ session.entry = "main"
            /\ \/ session.returned = "False"
               \/ session.again = "False"
               \/ session.interrupted) => session.pc \in {"finally", "exited"})
    /\ [](/\ session.farewells = IF session.pc = "exited" THEN 1 ELSE 0
          /\ session.status = IF session.pc = "exited" THEN 0 ELSE -1)
    /\ (session.pc = "finally") ~> (session.pc = "exited")

C29_Witness ==
    /\ session.pc = "exited" /\ session.interrupted
    /\ session.collectors = 1 /\ session.handlers = 0
    /\ session.farewells = 1 /\ session.status = 0
====
